---- MODULE Spec2Model ----
(***************************************************************************)
(* A model of the gameboy-emu core: the MMU (address-space router with an  *)
(* MBC1-style mapper, src/src/mmu.cpp) and the CPU (instruction engine for *)
(* the base opcode page, src/src/cpu.cpp).                                 *)
(*                                                                         *)
(* Memory arrays (std::array filled with 0) are kept sparse: a function    *)
(* whose domain is the set of offsets holding a non-zero byte.  A ROM      *)
(* image (std::vector<uint8_t>) is kept as its length, the bytes of a      *)
(* program placed at the entry point 0x0100 and a fixed background for     *)
(* every other index.                                                      *)
(***************************************************************************)
EXTENDS Integers, Sequences, FiniteSets, TLC

VARIABLES cpu, mmu, crashed, cerr, divTraps, last, ops_left, loads_left,
          steps_left

vars ==
  <<cpu, mmu, crashed, cerr, divTraps, last, ops_left, loads_left, steps_left>>

Byte == 0..255

(***************************************************************************)
(* Bounds of the exploration.                                              *)
(***************************************************************************)
\* host calls (Write, MMU::Reset) per run of the MMU alone
MaxOps == 4
\* host calls (Write, MMU::Reset, CPU::Reset) per run of the machine
MaxHostOps == 1
\* LoadROM calls per run
MaxLoads == 1
\* CPU::Step calls per run
MaxSteps == 3

(***************************************************************************)
(* Program constants.                                                      *)
(***************************************************************************)
\* include/gb/mmu.h
kBankSize == 16384
kExtRamSize == 8192
kOamSize == 160
\* include/gb/cpu.h
kZeroFlagMask == 128
kSubtractFlagMask == 64
kHalfCarryFlagMask == 32
kCarryFlagMask == 16
\* the entry point CPU::Reset sets the program counter to
kEntry == 256

(***************************************************************************)
(* Bit operations on naturals (the C operators &, | and ^).                *)
(***************************************************************************)
RECURSIVE BitAnd(_, _)
BitAnd(x, y) ==
  IF x = 0 \/ y = 0 THEN 0
  ELSE (x % 2) * (y % 2) + 2 * BitAnd(x \div 2, y \div 2)

RECURSIVE BitOr(_, _)
BitOr(x, y) ==
  IF x = 0 THEN y
  ELSE IF y = 0 THEN x
  ELSE (IF x % 2 = 1 \/ y % 2 = 1 THEN 1 ELSE 0) + 2 * BitOr(x \div 2, y \div 2)

RECURSIVE BitXor(_, _)
BitXor(x, y) ==
  IF x = 0 THEN y
  ELSE IF y = 0 THEN x
  ELSE ((x + y) % 2) + 2 * BitXor(x \div 2, y \div 2)

(***************************************************************************)
(* Bind(val, In) is In with val as the value of its parameter: the local   *)
(* variable of a C++ function body (val) and the statements after its      *)
(* declaration (In).                                                       *)
(***************************************************************************)
Bind(val, In(_)) == In(val)

(***************************************************************************)
(* Sparse byte arrays: std::array<uint8_t, N> after fill(0).               *)
(***************************************************************************)
Zeroed == [i \in {} |-> 0]

Get(arr, i) == IF i \in DOMAIN arr THEN arr[i] ELSE 0

\* Put that empties the rest of the array: the fault a store to one element
\* excludes.
PutClearing(arr, i, v) == IF v = 0 THEN Zeroed ELSE [j \in {i} |-> v]

Put(arr, i, v) ==
  IF v = 0 THEN [j \in (DOMAIN arr) \ {i} |-> arr[j]]
  ELSE [j \in (DOMAIN arr) \cup {i} |-> IF j = i THEN v ELSE arr[j]]

(***************************************************************************)
(* ROM images.  size is rom_.size(); code is the byte sequence stored from *)
(* index 0x0100 on; every other index i holds RomBackground(i), which      *)
(* differs between banks and between offsets of a bank; the eight RST      *)
(* vectors hold RET (0xC9).                                                *)
(***************************************************************************)
RomBackground(i) ==
  IF i < 64 /\ i % 8 = 0 THEN 201 ELSE (i + (i \div kBankSize)) % 256

RomAt(rom, i) ==
  IF i >= kEntry /\ i < kEntry + Len(rom.code)
  THEN rom.code[i - kEntry + 1]
  ELSE RomBackground(i)

NoRom == [size |-> 0, code |-> <<>>]

(***************************************************************************)
(* MMU state after construction (MMU::MMU and the member initialisers).    *)
(***************************************************************************)
MmuInit ==
  [ rom |-> NoRom,
    vram |-> Zeroed, ext_ram |-> Zeroed, wram0 |-> Zeroed, wram1 |-> Zeroed,
    oam |-> Zeroed, io_regs |-> Zeroed, hram |-> Zeroed,
    interrupt_enable |-> 0,
    ram_enable |-> FALSE, rom_bank_low5 |-> 1, rom_bank_high2 |-> 0,
    banking_mode |-> 0 ]

\* LoadROM that installs the image and leaves the mapper registers alone.
LoadROMKeepMapper(u, rom_data) == [u EXCEPT !.rom = rom_data]

LoadROM(u, rom_data) ==
  [u EXCEPT !.rom = rom_data,
            !.ram_enable = FALSE,
            !.rom_bank_low5 = 1,
            !.rom_bank_high2 = 0,
            !.banking_mode = 0]

\* RomBankSelect without the remap of a zero low-5 field: the fault the
\* remap of MMU::CurrentRomBank excludes.
RomBankSelectNoRemap(u) ==
  BitOr((u.rom_bank_high2 * 32) % 256, BitAnd(u.rom_bank_low5, 31))

\* bank after merging high2/low5 and the zero remap, before the wrap
RomBankSelect(u) ==
  Bind(BitOr((u.rom_bank_high2 * 32) % 256, BitAnd(u.rom_bank_low5, 31)),
       LAMBDA bank : IF BitAnd(bank, 31) = 0 THEN BitOr(bank, 1) ELSE bank)

\* static_cast<uint8_t>(rom_.size() / kBankSize)
MaxBanks(u) == (u.rom.size \div kBankSize) % 256

\* bank % max_banks divides by zero when max_banks = 0: undefined behaviour.
\* A build either traps (divTraps) or yields the dividend (a divide
\* instruction that leaves the dividend as the remainder of a zero divisor).
CurrentRomBankFaults(u) == divTraps /\ MaxBanks(u) = 0

CurrentRomBank(u) ==
  Bind(MaxBanks(u), LAMBDA max_banks :
  Bind(RomBankSelect(u), LAMBDA bank :
    IF max_banks = 0 THEN bank ELSE bank % max_banks))

\* CurrentRamBank that is 0 whatever the registers hold, so that every
\* RAM bank is the one stored bank: the fault the bank offset excludes.
CurrentRamBankAlwaysZero(u) == 0

\* CurrentRamBank taking the RAM bank from high2 in either banking mode.
CurrentRamBankAnyMode(u) == BitAnd(u.rom_bank_high2, 3)

CurrentRamBank(u) ==
  IF u.banking_mode = 0 THEN 0 ELSE BitAnd(u.rom_bank_high2, 3)

\* EchoTarget landing one page (4 KiB) below the echo address instead of
\* two: the fault the offset 0x2000 of the echo branches excludes.
EchoTargetOnePage(address) == address - 4096

\* address - 0x2000: the work-RAM address an echo address stands for
EchoTarget(address) == address - 8192

\* the read faults (the process dies) instead of returning a byte
ReadFaults(u, address) ==
  /\ address >= 16384 /\ address < 32768
  /\ CurrentRomBankFaults(u)

RECURSIVE Read(_, _)
Read(u, address) ==
  IF address < 16384 THEN
    (IF address < u.rom.size THEN RomAt(u.rom, address) ELSE 255)
  ELSE IF address < 32768 THEN
    Bind(CurrentRomBank(u) * kBankSize + (address - kBankSize), LAMBDA idx :
      IF idx < u.rom.size THEN RomAt(u.rom, idx) ELSE 255)
  ELSE IF address < 40960 THEN Get(u.vram, address - 32768)
  ELSE IF address < 49152 THEN
    (IF ~u.ram_enable THEN 255
     ELSE Bind(CurrentRamBank(u) * kExtRamSize + (address - 40960), LAMBDA off :
            IF off < kExtRamSize THEN Get(u.ext_ram, off) ELSE 255))
  ELSE IF address < 53248 THEN Get(u.wram0, address - 49152)
  ELSE IF address < 57344 THEN Get(u.wram1, address - 53248)
  ELSE IF address < 65024 THEN Read(u, EchoTarget(address))
  ELSE IF address < 65184 THEN Get(u.oam, address - 65024)
  ELSE IF address < 65280 THEN 255
  ELSE IF address < 65408 THEN Get(u.io_regs, address - 65280)
  ELSE IF address < 65535 THEN Get(u.hram, address - 65408)
  ELSE u.interrupt_enable

\* OAM after the DMA loop of Write(0xFF46, value).  The loop reads source
\* byte i before it stores oam_[i], and the only source that overlaps OAM
\* (value = 0xFE) copies each byte onto itself, so the copy is a block copy.
OamAfterDma(u, value) ==
  Bind([i \in 0..(kOamSize - 1) |-> Read(u, ((value * 256) % 65536) + i)],
       LAMBDA copied :
         [i \in {j \in 0..(kOamSize - 1) : copied[j] # 0} |-> copied[i]])

\* the write faults: its DMA loop performs a read that faults
WriteFaults(u, address, value) ==
  /\ address = 65350
  /\ \E i \in 0..(kOamSize - 1) : ReadFaults(u, ((value * 256) % 65536) + i)

\* WriteMapper storing the byte as written in the two bank registers: the
\* fault the masks of MMU::Write exclude.
WriteMapperUnmasked(u, address, value) ==
  IF address < 8192 THEN [u EXCEPT !.ram_enable = (BitAnd(value, 15) = 10)]
  ELSE IF address < 16384 THEN [u EXCEPT !.rom_bank_low5 = value]
  ELSE IF address < 24576 THEN [u EXCEPT !.rom_bank_high2 = value]
  ELSE [u EXCEPT !.banking_mode = BitAnd(value, 1)]

\* the mapper-control ranges of MMU::Write (address < 0x8000)
WriteMapper(u, address, value) ==
  IF address < 8192 THEN [u EXCEPT !.ram_enable = (BitAnd(value, 15) = 10)]
  ELSE IF address < 16384 THEN [u EXCEPT !.rom_bank_low5 = BitAnd(value, 31)]
  ELSE IF address < 24576 THEN [u EXCEPT !.rom_bank_high2 = BitAnd(value, 3)]
  ELSE [u EXCEPT !.banking_mode = BitAnd(value, 1)]

RECURSIVE Write(_, _, _)
Write(u, address, value) ==
  IF address < 32768 THEN WriteMapper(u, address, value)
  ELSE IF address < 40960 THEN
    [u EXCEPT !.vram = Put(@, address - 32768, value)]
  ELSE IF address < 49152 THEN
    (IF u.ram_enable
     THEN Bind(CurrentRamBank(u) * kExtRamSize + (address - 40960), LAMBDA off :
            IF off < kExtRamSize
            THEN [u EXCEPT !.ext_ram = Put(@, off, value)]
            ELSE u)
     ELSE u)
  ELSE IF address < 53248 THEN
    [u EXCEPT !.wram0 = Put(@, address - 49152, value)]
  ELSE IF address < 57344 THEN
    [u EXCEPT !.wram1 = Put(@, address - 53248, value)]
  ELSE IF address < 65024 THEN Write(u, EchoTarget(address), value)
  ELSE IF address < 65184 THEN
    [u EXCEPT !.oam = Put(@, address - 65024, value)]
  ELSE IF address < 65280 THEN u
  ELSE IF address < 65408 THEN
    [u EXCEPT !.oam = IF address = 65350 THEN OamAfterDma(u, value) ELSE @,
              !.io_regs = Put(@, address - 65280, value)]
  ELSE IF address < 65535 THEN
    [u EXCEPT !.hram = Put(@, address - 65408, value)]
  ELSE [u EXCEPT !.interrupt_enable = value]

MmuReset(u) ==
  [u EXCEPT !.vram = Zeroed, !.ext_ram = Zeroed, !.wram0 = Zeroed,
            !.wram1 = Zeroed, !.oam = Zeroed, !.io_regs = Zeroed,
            !.hram = Zeroed, !.interrupt_enable = 0]

(***************************************************************************)
(* CPU state after CPU::Reset.                                             *)
(***************************************************************************)
\* registers as the boot ROM of the hardware leaves them (A = 0x01, F = 0xB0)
\* instead of zeroed: the fault the assignments of CPU::Reset exclude.
CpuResetPostBoot ==
  [ pc |-> kEntry, sp |-> 65534, ime |-> FALSE,
    a |-> 1, f |-> 176, b |-> 0, c |-> 19, d |-> 0, e |-> 216, h |-> 1, l |-> 77 ]

CpuReset ==
  [ pc |-> kEntry, sp |-> 65534, ime |-> FALSE,
    a |-> 0, f |-> 0, b |-> 0, c |-> 0, d |-> 0, e |-> 0, h |-> 0, l |-> 0 ]

(***************************************************************************)
(* The machine a handler runs on: the CPU registers, the MMU singleton and *)
(* whether a memory access of the step has faulted, and the lines the step *)
(* has written to std::cerr.  A helper that returns a value in the code    *)
(* returns [val, s]: the value and the machine after.                      *)
(***************************************************************************)
Machine(c, u) == [cpu |-> c, mmu |-> u, crashed |-> FALSE, cerr |-> 0]

\* MMU::Instance().Read(address) from a handler
MemRead(s, address) ==
  [val |-> Read(s.mmu, address % 65536),
   s |-> [s EXCEPT !.crashed = @ \/ ReadFaults(s.mmu, address % 65536)]]

\* MMU::Instance().Write(address, value) from a handler
MemWrite(s, address, value) ==
  [s EXCEPT !.mmu = Write(@, address % 65536, value),
            !.crashed = @ \/ WriteFaults(s.mmu, address % 65536, value)]

\* FetchOpcode without the increment of pc_.
FetchOpcodeNoAdvance(s) == MemRead(s, s.cpu.pc)

FetchOpcode(s) ==
  Bind(MemRead(s, s.cpu.pc), LAMBDA r :
    [val |-> r.val, s |-> [r.s EXCEPT !.cpu.pc = (@ + 1) % 65536]])

Fetch8(s) == FetchOpcode(s)

Fetch16(s) ==
  Bind(FetchOpcode(s), LAMBDA low :
  Bind(FetchOpcode(low.s), LAMBDA high :
    [val |-> BitOr((high.val * 256) % 65536, low.val), s |-> high.s]))

(***************************************************************************)
(* Flag helpers (on the flags byte).                                       *)
(***************************************************************************)
SetFlag(f, flag_mask, set) ==
  BitAnd(IF set THEN BitOr(f, flag_mask) ELSE BitAnd(f, 255 - flag_mask), 240)

GetFlag(f, flag_mask) == BitAnd(f, flag_mask) # 0

\* four SetFlag calls in the order Z, N, H, C
SetZNHC(f, z, n, h, cy) ==
  SetFlag(SetFlag(SetFlag(SetFlag(f, kZeroFlagMask, z),
                          kSubtractFlagMask, n),
                  kHalfCarryFlagMask, h),
          kCarryFlagMask, cy)

\* three SetFlag calls in the order Z, N, H (the carry flag is not touched)
SetZNH(f, z, n, h) ==
  SetFlag(SetFlag(SetFlag(f, kZeroFlagMask, z), kSubtractFlagMask, n),
          kHalfCarryFlagMask, h)

\* three SetFlag calls in the order N, H, C (the zero flag is not touched)
SetNHC(f, n, h, cy) ==
  SetFlag(SetFlag(SetFlag(f, kSubtractFlagMask, n), kHalfCarryFlagMask, h),
          kCarryFlagMask, cy)

(***************************************************************************)
(* Register pairs.                                                         *)
(***************************************************************************)
\* (static_cast<uint16_t>(hi) << 8) | lo
Pair(c, hi, lo) == BitOr(c[hi] * 256, c[lo])

hl(c) == BitOr(c.h * 256, c.l)

set_hl(c, val) ==
  [c EXCEPT !.h = ((val % 65536) \div 256) % 256, !.l = val % 256]

\* hi = static_cast<uint8_t>(val >> 8); lo = static_cast<uint8_t>(val & 0xFF)
SetPair(c, hi, lo, val) ==
  [c EXCEPT ![hi] = ((val % 65536) \div 256) % 256, ![lo] = val % 256]

\* static_cast<int8_t>(byte)
\* the byte taken as unsigned: the fault the cast to int8_t excludes.
SignExtendNone(byte) == byte

SignExtend(byte) == IF byte >= 128 THEN byte - 256 ELSE byte

(***************************************************************************)
(* Stack helpers.                                                          *)
(***************************************************************************)
\* PushWord storing the low byte first and the high byte second (at the
\* same addresses): the fault the order of the two writes excludes.
PushWordLowFirst(s, word) ==
  Bind(MemWrite([s EXCEPT !.cpu.sp = (@ - 2) % 65536],
                (s.cpu.sp - 2) % 65536, word % 256),
       LAMBDA s1 :
         MemWrite(s1, (s.cpu.sp - 1) % 65536, (word \div 256) % 256))

PushWord(s, word) ==
  Bind(MemWrite([s EXCEPT !.cpu.sp = (@ - 1) % 65536],
                (s.cpu.sp - 1) % 65536, (word \div 256) % 256),
       LAMBDA s1 :
         MemWrite([s1 EXCEPT !.cpu.sp = (@ - 1) % 65536],
                  (s1.cpu.sp - 1) % 65536, word % 256))

\* PopWord reading the high byte first: the fault the byte order of
\* CPU::PopWord excludes.
PopWordHighFirst(s) ==
  Bind(MemRead(s, s.cpu.sp), LAMBDA high :
  Bind(MemRead([high.s EXCEPT !.cpu.sp = (@ + 1) % 65536],
               (high.s.cpu.sp + 1) % 65536),
       LAMBDA low :
         [val |-> BitOr(high.val * 256, low.val),
          s |-> [low.s EXCEPT !.cpu.sp = (@ + 1) % 65536]]))

PopWord(s) ==
  Bind(MemRead(s, s.cpu.sp), LAMBDA low :
  Bind(MemRead([low.s EXCEPT !.cpu.sp = (@ + 1) % 65536],
               (low.s.cpu.sp + 1) % 65536),
       LAMBDA high :
         [val |-> BitOr(high.val * 256, low.val),
          s |-> [high.s EXCEPT !.cpu.sp = (@ + 1) % 65536]]))

(***************************************************************************)
(* Arithmetic, logic and rotate helpers (on the register record).          *)
(***************************************************************************)
\* the carry an ADC / SBC adds in: 1 if use_carry and the C flag is set
CarryIn(c, use_carry) ==
  IF use_carry /\ GetFlag(c.f, kCarryFlagMask) THEN 1 ELSE 0

\* Add8 whose half carry leaves out the carry-in: the fault the "+ carry" of
\* the half-carry sum excludes.
Add8HalfWithoutCarryIn(c, val, use_carry) ==
  Bind(CarryIn(c, use_carry), LAMBDA carry :
  Bind(c.a + val + carry, LAMBDA result :
    [c EXCEPT !.a = result % 256,
              !.f = SetZNHC(@, result % 256 = 0, FALSE,
                            (BitAnd(c.a, 15) + BitAnd(val, 15)) > 15,
                            result > 255)]))

Add8(c, val, use_carry) ==
  Bind(CarryIn(c, use_carry), LAMBDA carry :
  Bind(c.a + val + carry, LAMBDA result :
    [c EXCEPT !.a = result % 256,
              !.f = SetZNHC(@, result % 256 = 0, FALSE,
                            (BitAnd(c.a, 15) + BitAnd(val, 15) + carry) > 15,
                            result > 255)]))

Sub8(c, val, use_carry) ==
  Bind(CarryIn(c, use_carry), LAMBDA carry :
  Bind((c.a - val - carry) % 65536, LAMBDA result_sub :
    [c EXCEPT !.a = result_sub % 256,
              !.f = SetZNHC(@, result_sub % 256 = 0, TRUE,
                            BitAnd(c.a, 15) < (BitAnd(val, 15) + carry),
                            result_sub > 255)]))

\* Inc8 that clears the carry flag with the other three: the fault the
\* missing SetFlag(kCarryFlagMask, ...) of CPU::Inc8 excludes.
Inc8ClearingCarry(c, reg) ==
  Bind((reg + 1) % 256, LAMBDA result :
    [val |-> result,
     c |-> [c EXCEPT !.f = SetZNHC(@, result = 0, FALSE,
                                   BitAnd(reg, 15) = 15, FALSE)]])

Inc8(c, reg) ==
  Bind((reg + 1) % 256, LAMBDA result :
    [val |-> result,
     c |-> [c EXCEPT !.f = SetZNH(@, result = 0, FALSE, BitAnd(reg, 15) = 15)]])

Dec8(c, reg) ==
  Bind((reg - 1) % 256, LAMBDA result :
    [val |-> result,
     c |-> [c EXCEPT !.f = SetZNH(@, result = 0, TRUE, BitAnd(reg, 15) = 0)]])

And8(c, val) ==
  Bind(BitAnd(c.a, val), LAMBDA na :
    [c EXCEPT !.a = na, !.f = SetZNHC(@, na = 0, FALSE, TRUE, FALSE)])

Or8(c, val) ==
  Bind(BitOr(c.a, val), LAMBDA na :
    [c EXCEPT !.a = na, !.f = SetZNHC(@, na = 0, FALSE, FALSE, FALSE)])

Xor8(c, val) ==
  Bind(BitXor(c.a, val), LAMBDA na :
    [c EXCEPT !.a = na, !.f = SetZNHC(@, na = 0, FALSE, FALSE, FALSE)])

\* Cp8 that stores the difference in A, as Sub8 does: the fault the missing
\* assignment of CPU::Cp8 excludes.
Cp8StoringA(c, val) ==
  Bind((c.a - val) % 65536, LAMBDA result_sub :
    [c EXCEPT !.a = result_sub % 256,
              !.f = SetZNHC(@, result_sub % 256 = 0, TRUE,
                            BitAnd(c.a, 15) < BitAnd(val, 15),
                            result_sub > 255)])

Cp8(c, val) ==
  Bind((c.a - val) % 65536, LAMBDA result_sub :
    [c EXCEPT !.f = SetZNHC(@, result_sub % 256 = 0, TRUE,
                            BitAnd(c.a, 15) < BitAnd(val, 15),
                            result_sub > 255)])

RlcA(c) ==
  Bind(BitAnd(c.a, 128) \div 128, LAMBDA carry :
    [c EXCEPT !.a = BitOr(c.a * 2, carry) % 256,
              !.f = SetZNHC(@, FALSE, FALSE, FALSE, carry # 0)])

RrcA(c) ==
  Bind(BitAnd(c.a, 1), LAMBDA carry :
    [c EXCEPT !.a = BitOr(c.a \div 2, carry * 128) % 256,
              !.f = SetZNHC(@, FALSE, FALSE, FALSE, carry # 0)])

RlA(c) ==
  Bind(CarryIn(c, TRUE), LAMBDA old_carry :
    [c EXCEPT !.a = BitOr(c.a * 2, old_carry) % 256,
              !.f = SetZNHC(@, FALSE, FALSE, FALSE, BitAnd(c.a, 128) # 0)])

RrA(c) ==
  Bind(CarryIn(c, TRUE), LAMBDA old_carry :
    [c EXCEPT !.a = BitOr(c.a \div 2, old_carry * 128) % 256,
              !.f = SetZNHC(@, FALSE, FALSE, FALSE, BitAnd(c.a, 1) # 0)])

(***************************************************************************)
(* Opcode handlers.  Handlers that differ only in the register they name   *)
(* are one operator with the register (a field name of the register        *)
(* record) as a parameter.                                                 *)
(***************************************************************************)
OpNOP(s) == s

\* --- 8-bit loads ---
OpLD_r_d8(s, r) ==
  Bind(Fetch8(s), LAMBDA v : [v.s EXCEPT !.cpu[r] = v.val])

OpLD_r_r(s, dst, src) == [s EXCEPT !.cpu[dst] = s.cpu[src]]

OpLD_r_addrHL(s, r) ==
  Bind(MemRead(s, hl(s.cpu)), LAMBDA v : [v.s EXCEPT !.cpu[r] = v.val])

OpLD_addrHL_r(s, r) == MemWrite(s, hl(s.cpu), s.cpu[r])

OpLD_addrHL_d8(s) ==
  Bind(Fetch8(s), LAMBDA v : MemWrite(v.s, hl(s.cpu), v.val))

OpLD_A_addrRR(s, hi, lo) ==
  Bind(MemRead(s, Pair(s.cpu, hi, lo)), LAMBDA v : [v.s EXCEPT !.cpu.a = v.val])

OpLD_A_addrHLinc(s) ==
  Bind(MemRead(s, hl(s.cpu)), LAMBDA v :
    [v.s EXCEPT !.cpu = set_hl([@ EXCEPT !.a = v.val], hl(s.cpu) + 1)])

OpLD_A_addrHLdec(s) ==
  Bind(MemRead(s, hl(s.cpu)), LAMBDA v :
    [v.s EXCEPT !.cpu = set_hl([@ EXCEPT !.a = v.val], hl(s.cpu) - 1)])

OpLD_addrRR_A(s, hi, lo) == MemWrite(s, Pair(s.cpu, hi, lo), s.cpu.a)

OpLD_addrHLinc_A(s) ==
  [MemWrite(s, hl(s.cpu), s.cpu.a) EXCEPT !.cpu = set_hl(@, hl(s.cpu) + 1)]

OpLD_addrHLdec_A(s) ==
  [MemWrite(s, hl(s.cpu), s.cpu.a) EXCEPT !.cpu = set_hl(@, hl(s.cpu) - 1)]

OpLD_A_a16(s) ==
  Bind(Fetch16(s), LAMBDA addr :
  Bind(MemRead(addr.s, addr.val), LAMBDA v :
    [v.s EXCEPT !.cpu.a = v.val]))

OpLD_a16_A(s) ==
  Bind(Fetch16(s), LAMBDA addr : MemWrite(addr.s, addr.val, s.cpu.a))

OpLDH_A_a8(s) ==
  Bind(Fetch8(s), LAMBDA n :
  Bind(MemRead(n.s, 65280 + n.val), LAMBDA v :
    [v.s EXCEPT !.cpu.a = v.val]))

OpLDH_a8_A(s) ==
  Bind(Fetch8(s), LAMBDA n : MemWrite(n.s, 65280 + n.val, s.cpu.a))

OpLD_A_addrC(s) ==
  Bind(MemRead(s, 65280 + s.cpu.c), LAMBDA v : [v.s EXCEPT !.cpu.a = v.val])

OpLD_addrC_A(s) == MemWrite(s, 65280 + s.cpu.c, s.cpu.a)

\* --- 16-bit loads ---
OpLD_rr_d16(s, hi, lo) ==
  Bind(Fetch16(s), LAMBDA val :
    [val.s EXCEPT !.cpu = SetPair(@, hi, lo, val.val)])

OpLD_SP_d16(s) ==
  Bind(Fetch16(s), LAMBDA val : [val.s EXCEPT !.cpu.sp = val.val])

OpLD_SP_HL(s) == [s EXCEPT !.cpu.sp = hl(s.cpu)]

\* H and C of SP + signed offset: bits 4 and 8 of sp ^ offset ^ result
\* SpOffsetFlags taking the carries of the 16-bit sum (out of bits 11 and 15,
\* as ADD HL,rr does) instead of those of the low byte.
SpOffsetFlagsWord(f, current_sp, offset) ==
  SetZNHC(f, FALSE, FALSE,
          (current_sp % 4096) + ((offset % 65536) % 4096) > 4095,
          current_sp + (offset % 65536) > 65535)

\* SpOffsetFlags with the offset taken as an unsigned byte in the exclusive
\* or: the fault the promotion of the int8_t offset to int excludes.
SpOffsetFlagsUnsigned(f, current_sp, offset) ==
  Bind(BitXor(BitXor(current_sp, offset % 256),
              (current_sp + offset) % 65536),
       LAMBDA x :
         SetZNHC(f, FALSE, FALSE, BitAnd(x, 16) # 0, BitAnd(x, 256) # 0))

SpOffsetFlags(f, current_sp, offset) ==
  Bind(BitXor(BitXor(current_sp, offset % 65536),
              (current_sp + offset) % 65536),
       LAMBDA x :
         SetZNHC(f, FALSE, FALSE, BitAnd(x, 16) # 0, BitAnd(x, 256) # 0))

OpLD_HL_SPplusr8(s) ==
  Bind(Fetch8(s), LAMBDA n :
    [n.s EXCEPT !.cpu =
       set_hl([@ EXCEPT !.f = SpOffsetFlags(@, s.cpu.sp, SignExtend(n.val))],
              (s.cpu.sp + SignExtend(n.val)) % 65536)])

OpLD_a16_SP(s) ==
  Bind(Fetch16(s), LAMBDA addr :
    MemWrite(MemWrite(addr.s, addr.val, BitAnd(s.cpu.sp, 255)),
             addr.val + 1, s.cpu.sp \div 256))

\* --- 8-bit INC / DEC ---
OpINC_r(s, r) ==
  Bind(Inc8(s.cpu, s.cpu[r]), LAMBDA x :
    [s EXCEPT !.cpu = [x.c EXCEPT ![r] = x.val]])

OpDEC_r(s, r) ==
  Bind(Dec8(s.cpu, s.cpu[r]), LAMBDA x :
    [s EXCEPT !.cpu = [x.c EXCEPT ![r] = x.val]])

OpINC_addrHL(s) ==
  Bind(MemRead(s, hl(s.cpu)), LAMBDA v :
  Bind(Inc8(s.cpu, v.val), LAMBDA x :
    MemWrite([v.s EXCEPT !.cpu = x.c], hl(s.cpu), x.val)))

OpDEC_addrHL(s) ==
  Bind(MemRead(s, hl(s.cpu)), LAMBDA v :
  Bind(Dec8(s.cpu, v.val), LAMBDA x :
    MemWrite([v.s EXCEPT !.cpu = x.c], hl(s.cpu), x.val)))

\* --- 8-bit ALU on A: the helper each handler of a row calls ---
Alu(c, op, val) ==
  CASE op = "ADD" -> Add8(c, val, FALSE)
    [] op = "ADC" -> Add8(c, val, TRUE)
    [] op = "SUB" -> Sub8(c, val, FALSE)
    [] op = "SBC" -> Sub8(c, val, TRUE)
    [] op = "AND" -> And8(c, val)
    [] op = "XOR" -> Xor8(c, val)
    [] op = "OR" -> Or8(c, val)
    [] op = "CP" -> Cp8(c, val)

OpALU_r(s, op, r) == [s EXCEPT !.cpu = Alu(@, op, s.cpu[r])]

OpALU_addrHL(s, op) ==
  Bind(MemRead(s, hl(s.cpu)), LAMBDA v :
    [v.s EXCEPT !.cpu = Alu(@, op, v.val)])

OpALU_d8(s, op) ==
  Bind(Fetch8(s), LAMBDA v : [v.s EXCEPT !.cpu = Alu(@, op, v.val)])

\* --- 16-bit arithmetic ---
OpINC_rr(s, hi, lo) ==
  [s EXCEPT !.cpu = SetPair(@, hi, lo, (Pair(s.cpu, hi, lo) + 1) % 65536)]

OpDEC_rr(s, hi, lo) ==
  [s EXCEPT !.cpu = SetPair(@, hi, lo, (Pair(s.cpu, hi, lo) - 1) % 65536)]

OpINC_SP(s) == [s EXCEPT !.cpu.sp = (@ + 1) % 65536]

OpDEC_SP(s) == [s EXCEPT !.cpu.sp = (@ - 1) % 65536]

\* the body shared by ADD HL,BC / DE / HL / SP
AddHL(c, val2) ==
  Bind(hl(c), LAMBDA val1 :
    set_hl([c EXCEPT !.f = SetNHC(@, FALSE,
                                  (BitAnd(val1, 4095) + BitAnd(val2, 4095)) > 4095,
                                  val1 + val2 > 65535)],
           BitAnd(val1 + val2, 65535)))

OpADD_HL_rr(s, hi, lo) == [s EXCEPT !.cpu = AddHL(@, Pair(s.cpu, hi, lo))]

OpADD_HL_SP(s) == [s EXCEPT !.cpu = AddHL(@, s.cpu.sp)]

OpADD_SP_r8(s) ==
  Bind(Fetch8(s), LAMBDA n :
    [n.s EXCEPT !.cpu.f = SpOffsetFlags(@, s.cpu.sp, SignExtend(n.val)),
                !.cpu.sp = (s.cpu.sp + SignExtend(n.val)) % 65536])

\* --- miscellaneous ALU ---
\* DAA that adds the correction of the addition case whatever the subtract
\* flag: the fault the subtract branch of CPU::OpDAA excludes.
OpDAA_AddOnly(s) ==
  LET c == s.cpu
      hi == GetFlag(c.f, kCarryFlagMask) \/ c.a > 153
      lo == GetFlag(c.f, kHalfCarryFlagMask) \/ BitAnd(c.a, 15) > 9
      na == (c.a + BitOr(IF hi THEN 96 ELSE 0, IF lo THEN 6 ELSE 0)) % 256
      f1 == IF hi THEN SetFlag(c.f, kCarryFlagMask, TRUE) ELSE c.f
  IN  [s EXCEPT !.cpu.a = na,
                !.cpu.f = SetFlag(SetFlag(f1, kZeroFlagMask, na = 0),
                                  kHalfCarryFlagMask, FALSE)]

OpDAA(s) ==
  LET c == s.cpu
      carry == GetFlag(c.f, kCarryFlagMask)
      half_carry == GetFlag(c.f, kHalfCarryFlagMask)
      subtract == GetFlag(c.f, kSubtractFlagMask)
      current_a == c.a
      hi == IF ~subtract THEN (carry \/ current_a > 153) ELSE carry
      lo == IF ~subtract THEN (half_carry \/ BitAnd(current_a, 15) > 9)
            ELSE half_carry
      correction == BitOr(IF hi THEN 96 ELSE 0, IF lo THEN 6 ELSE 0)
      f1 == IF ~subtract /\ hi THEN SetFlag(c.f, kCarryFlagMask, TRUE) ELSE c.f
      na == (current_a + (IF subtract THEN -correction ELSE correction)) % 256
  IN  [s EXCEPT !.cpu.a = na,
                !.cpu.f = SetFlag(SetFlag(f1, kZeroFlagMask, na = 0),
                                  kHalfCarryFlagMask, FALSE)]

OpCPL(s) ==
  [s EXCEPT !.cpu.a = 255 - @,
            !.cpu.f = SetFlag(SetFlag(@, kSubtractFlagMask, TRUE),
                              kHalfCarryFlagMask, TRUE)]

OpSCF(s) == [s EXCEPT !.cpu.f = SetNHC(@, FALSE, FALSE, TRUE)]

OpCCF(s) ==
  [s EXCEPT !.cpu.f = SetNHC(@, FALSE, FALSE, ~GetFlag(s.cpu.f, kCarryFlagMask))]

OpRLCA(s) == [s EXCEPT !.cpu = RlcA(@)]
OpRRCA(s) == [s EXCEPT !.cpu = RrcA(@)]
OpRLA(s) == [s EXCEPT !.cpu = RlA(@)]
OpRRA(s) == [s EXCEPT !.cpu = RrA(@)]

\* --- jumps, calls, returns ---
\* the GetFlag test of a conditional handler
Cond(c, cc) ==
  CASE cc = "NZ" -> ~GetFlag(c.f, kZeroFlagMask)
    [] cc = "Z" -> GetFlag(c.f, kZeroFlagMask)
    [] cc = "NC" -> ~GetFlag(c.f, kCarryFlagMask)
    [] cc = "C" -> GetFlag(c.f, kCarryFlagMask)

OpJP_a16(s) ==
  Bind(Fetch16(s), LAMBDA addr : [addr.s EXCEPT !.cpu.pc = addr.val])

OpJP_HL(s) == [s EXCEPT !.cpu.pc = hl(s.cpu)]

OpJP_cc_a16(s, cc) ==
  Bind(Fetch16(s), LAMBDA addr :
    IF Cond(s.cpu, cc) THEN [addr.s EXCEPT !.cpu.pc = addr.val] ELSE addr.s)

OpJR_r8(s) ==
  Bind(Fetch8(s), LAMBDA n :
    [n.s EXCEPT !.cpu.pc = (@ + SignExtend(n.val)) % 65536])

OpJR_cc_r8(s, cc) ==
  Bind(Fetch8(s), LAMBDA n :
    IF Cond(s.cpu, cc)
    THEN [n.s EXCEPT !.cpu.pc = (@ + SignExtend(n.val)) % 65536]
    ELSE n.s)

\* CALL pushing the address of its own operand instead of the address after
\* it: the fault the order fetch-then-push of CPU::OpCALL_a16 excludes.
OpCALL_a16_PushEarly(s) ==
  Bind(Fetch16(s), LAMBDA addr :
    [PushWord(addr.s, (s.cpu.pc) % 65536) EXCEPT !.cpu.pc = addr.val])

OpCALL_a16(s) ==
  Bind(Fetch16(s), LAMBDA addr :
    [PushWord(addr.s, addr.s.cpu.pc) EXCEPT !.cpu.pc = addr.val])

OpCALL_cc_a16(s, cc) ==
  Bind(Fetch16(s), LAMBDA addr :
    IF Cond(s.cpu, cc)
    THEN [PushWord(addr.s, addr.s.cpu.pc) EXCEPT !.cpu.pc = addr.val]
    ELSE addr.s)

OpRST(s, vec) == [PushWord(s, s.cpu.pc) EXCEPT !.cpu.pc = vec]

OpRET(s) ==
  Bind(PopWord(s), LAMBDA w : [w.s EXCEPT !.cpu.pc = w.val])

OpRET_cc(s, cc) ==
  IF Cond(s.cpu, cc)
  THEN Bind(PopWord(s), LAMBDA w : [w.s EXCEPT !.cpu.pc = w.val])
  ELSE s

OpRETI(s) ==
  Bind(PopWord(s), LAMBDA w :
    [w.s EXCEPT !.cpu.pc = w.val, !.cpu.ime = TRUE])

\* --- stack ---
OpPUSH_rr(s, hi, lo) == PushWord(s, Pair(s.cpu, hi, lo))

OpPOP_rr(s, hi, lo) ==
  Bind(PopWord(s), LAMBDA val :
    [val.s EXCEPT !.cpu = SetPair(@, hi, lo, val.val)])

\* POP AF storing the popped low byte in F as it is: the fault the mask of
\* CPU::OpPOP_AF excludes.
OpPOP_AF_Unmasked(s) ==
  Bind(PopWord(s), LAMBDA val :
    [val.s EXCEPT !.cpu.a = (val.val \div 256) % 256,
                  !.cpu.f = val.val % 256])

OpPOP_AF(s) ==
  Bind(PopWord(s), LAMBDA val :
    [val.s EXCEPT !.cpu.a = (val.val \div 256) % 256,
                  !.cpu.f = BitAnd(val.val, 240)])

\* --- miscellaneous ---
\* STOP that leaves the byte after it to be executed.
OpSTOP_NoOperand(s) == s

OpSTOP(s) == Fetch8(s).s

OpHALT(s) == s

OpDI(s) == [s EXCEPT !.cpu.ime = FALSE]

\* EI that leaves IME to be set after the following instruction: the
\* one-instruction delay CPU::OpEI does not have.
OpEIDelayed(s) == s

OpEI(s) == [s EXCEPT !.cpu.ime = TRUE]

\* writes one line to std::cerr; no member of the CPU is changed
OpPREFIX_CB(s) == [s EXCEPT !.cerr = @ + 1]

\* The eleven opcode bytes without a handler in cpu.cpp.  The dispatch
\* table is populated by gb/opcode_list.h; the handler declared for them
\* (CPU::OpIllegal) has no effect.
IllegalOpcodes == {211, 219, 221, 227, 228, 235, 236, 237, 244, 252, 253}

OpIllegal(s) == s

Execute(s, opcode) ==
  CASE opcode = 0 -> OpNOP(s)                                \* 0x00 NOP
    [] opcode = 1 -> OpLD_rr_d16(s, "b", "c")                \* 0x01 LD_BC_d16
    [] opcode = 2 -> OpLD_addrRR_A(s, "b", "c")              \* 0x02 LD_addrBC_A
    [] opcode = 3 -> OpINC_rr(s, "b", "c")                   \* 0x03 INC_BC
    [] opcode = 4 -> OpINC_r(s, "b")                         \* 0x04 INC_B
    [] opcode = 5 -> OpDEC_r(s, "b")                         \* 0x05 DEC_B
    [] opcode = 6 -> OpLD_r_d8(s, "b")                       \* 0x06 LD_B_d8
    [] opcode = 7 -> OpRLCA(s)                               \* 0x07 RLCA
    [] opcode = 8 -> OpLD_a16_SP(s)                          \* 0x08 LD_a16_SP
    [] opcode = 9 -> OpADD_HL_rr(s, "b", "c")                \* 0x09 ADD_HL_BC
    [] opcode = 10 -> OpLD_A_addrRR(s, "b", "c")              \* 0x0A LD_A_addrBC
    [] opcode = 11 -> OpDEC_rr(s, "b", "c")                   \* 0x0B DEC_BC
    [] opcode = 12 -> OpINC_r(s, "c")                         \* 0x0C INC_C
    [] opcode = 13 -> OpDEC_r(s, "c")                         \* 0x0D DEC_C
    [] opcode = 14 -> OpLD_r_d8(s, "c")                       \* 0x0E LD_C_d8
    [] opcode = 15 -> OpRRCA(s)                               \* 0x0F RRCA
    [] opcode = 16 -> OpSTOP(s)                               \* 0x10 STOP
    [] opcode = 17 -> OpLD_rr_d16(s, "d", "e")                \* 0x11 LD_DE_d16
    [] opcode = 18 -> OpLD_addrRR_A(s, "d", "e")              \* 0x12 LD_addrDE_A
    [] opcode = 19 -> OpINC_rr(s, "d", "e")                   \* 0x13 INC_DE
    [] opcode = 20 -> OpINC_r(s, "d")                         \* 0x14 INC_D
    [] opcode = 21 -> OpDEC_r(s, "d")                         \* 0x15 DEC_D
    [] opcode = 22 -> OpLD_r_d8(s, "d")                       \* 0x16 LD_D_d8
    [] opcode = 23 -> OpRLA(s)                                \* 0x17 RLA
    [] opcode = 24 -> OpJR_r8(s)                              \* 0x18 JR_r8
    [] opcode = 25 -> OpADD_HL_rr(s, "d", "e")                \* 0x19 ADD_HL_DE
    [] opcode = 26 -> OpLD_A_addrRR(s, "d", "e")              \* 0x1A LD_A_addrDE
    [] opcode = 27 -> OpDEC_rr(s, "d", "e")                   \* 0x1B DEC_DE
    [] opcode = 28 -> OpINC_r(s, "e")                         \* 0x1C INC_E
    [] opcode = 29 -> OpDEC_r(s, "e")                         \* 0x1D DEC_E
    [] opcode = 30 -> OpLD_r_d8(s, "e")                       \* 0x1E LD_E_d8
    [] opcode = 31 -> OpRRA(s)                                \* 0x1F RRA
    [] opcode = 32 -> OpJR_cc_r8(s, "NZ")                     \* 0x20 JR_NZ_r8
    [] opcode = 33 -> OpLD_rr_d16(s, "h", "l")                \* 0x21 LD_HL_d16
    [] opcode = 34 -> OpLD_addrHLinc_A(s)                     \* 0x22 LD_addrHLinc_A
    [] opcode = 35 -> OpINC_rr(s, "h", "l")                   \* 0x23 INC_HL
    [] opcode = 36 -> OpINC_r(s, "h")                         \* 0x24 INC_H
    [] opcode = 37 -> OpDEC_r(s, "h")                         \* 0x25 DEC_H
    [] opcode = 38 -> OpLD_r_d8(s, "h")                       \* 0x26 LD_H_d8
    [] opcode = 39 -> OpDAA(s)                                \* 0x27 DAA
    [] opcode = 40 -> OpJR_cc_r8(s, "Z")                      \* 0x28 JR_Z_r8
    [] opcode = 41 -> OpADD_HL_rr(s, "h", "l")                \* 0x29 ADD_HL_HL
    [] opcode = 42 -> OpLD_A_addrHLinc(s)                     \* 0x2A LD_A_addrHLinc
    [] opcode = 43 -> OpDEC_rr(s, "h", "l")                   \* 0x2B DEC_HL
    [] opcode = 44 -> OpINC_r(s, "l")                         \* 0x2C INC_L
    [] opcode = 45 -> OpDEC_r(s, "l")                         \* 0x2D DEC_L
    [] opcode = 46 -> OpLD_r_d8(s, "l")                       \* 0x2E LD_L_d8
    [] opcode = 47 -> OpCPL(s)                                \* 0x2F CPL
    [] opcode = 48 -> OpJR_cc_r8(s, "NC")                     \* 0x30 JR_NC_r8
    [] opcode = 49 -> OpLD_SP_d16(s)                          \* 0x31 LD_SP_d16
    [] opcode = 50 -> OpLD_addrHLdec_A(s)                     \* 0x32 LD_addrHLdec_A
    [] opcode = 51 -> OpINC_SP(s)                             \* 0x33 INC_SP
    [] opcode = 52 -> OpINC_addrHL(s)                         \* 0x34 INC_addrHL
    [] opcode = 53 -> OpDEC_addrHL(s)                         \* 0x35 DEC_addrHL
    [] opcode = 54 -> OpLD_addrHL_d8(s)                       \* 0x36 LD_addrHL_d8
    [] opcode = 55 -> OpSCF(s)                                \* 0x37 SCF
    [] opcode = 56 -> OpJR_cc_r8(s, "C")                      \* 0x38 JR_C_r8
    [] opcode = 57 -> OpADD_HL_SP(s)                          \* 0x39 ADD_HL_SP
    [] opcode = 58 -> OpLD_A_addrHLdec(s)                     \* 0x3A LD_A_addrHLdec
    [] opcode = 59 -> OpDEC_SP(s)                             \* 0x3B DEC_SP
    [] opcode = 60 -> OpINC_r(s, "a")                         \* 0x3C INC_A
    [] opcode = 61 -> OpDEC_r(s, "a")                         \* 0x3D DEC_A
    [] opcode = 62 -> OpLD_r_d8(s, "a")                       \* 0x3E LD_A_d8
    [] opcode = 63 -> OpCCF(s)                                \* 0x3F CCF
    [] opcode = 64 -> OpNOP(s)                                \* 0x40 LD_B_B
    [] opcode = 65 -> OpLD_r_r(s, "b", "c")                   \* 0x41 LD_B_C
    [] opcode = 66 -> OpLD_r_r(s, "b", "d")                   \* 0x42 LD_B_D
    [] opcode = 67 -> OpLD_r_r(s, "b", "e")                   \* 0x43 LD_B_E
    [] opcode = 68 -> OpLD_r_r(s, "b", "h")                   \* 0x44 LD_B_H
    [] opcode = 69 -> OpLD_r_r(s, "b", "l")                   \* 0x45 LD_B_L
    [] opcode = 70 -> OpLD_r_addrHL(s, "b")                   \* 0x46 LD_B_addrHL
    [] opcode = 71 -> OpLD_r_r(s, "b", "a")                   \* 0x47 LD_B_A
    [] opcode = 72 -> OpLD_r_r(s, "c", "b")                   \* 0x48 LD_C_B
    [] opcode = 73 -> OpNOP(s)                                \* 0x49 LD_C_C
    [] opcode = 74 -> OpLD_r_r(s, "c", "d")                   \* 0x4A LD_C_D
    [] opcode = 75 -> OpLD_r_r(s, "c", "e")                   \* 0x4B LD_C_E
    [] opcode = 76 -> OpLD_r_r(s, "c", "h")                   \* 0x4C LD_C_H
    [] opcode = 77 -> OpLD_r_r(s, "c", "l")                   \* 0x4D LD_C_L
    [] opcode = 78 -> OpLD_r_addrHL(s, "c")                   \* 0x4E LD_C_addrHL
    [] opcode = 79 -> OpLD_r_r(s, "c", "a")                   \* 0x4F LD_C_A
    [] opcode = 80 -> OpLD_r_r(s, "d", "b")                   \* 0x50 LD_D_B
    [] opcode = 81 -> OpLD_r_r(s, "d", "c")                   \* 0x51 LD_D_C
    [] opcode = 82 -> OpNOP(s)                                \* 0x52 LD_D_D
    [] opcode = 83 -> OpLD_r_r(s, "d", "e")                   \* 0x53 LD_D_E
    [] opcode = 84 -> OpLD_r_r(s, "d", "h")                   \* 0x54 LD_D_H
    [] opcode = 85 -> OpLD_r_r(s, "d", "l")                   \* 0x55 LD_D_L
    [] opcode = 86 -> OpLD_r_addrHL(s, "d")                   \* 0x56 LD_D_addrHL
    [] opcode = 87 -> OpLD_r_r(s, "d", "a")                   \* 0x57 LD_D_A
    [] opcode = 88 -> OpLD_r_r(s, "e", "b")                   \* 0x58 LD_E_B
    [] opcode = 89 -> OpLD_r_r(s, "e", "c")                   \* 0x59 LD_E_C
    [] opcode = 90 -> OpLD_r_r(s, "e", "d")                   \* 0x5A LD_E_D
    [] opcode = 91 -> OpNOP(s)                                \* 0x5B LD_E_E
    [] opcode = 92 -> OpLD_r_r(s, "e", "h")                   \* 0x5C LD_E_H
    [] opcode = 93 -> OpLD_r_r(s, "e", "l")                   \* 0x5D LD_E_L
    [] opcode = 94 -> OpLD_r_addrHL(s, "e")                   \* 0x5E LD_E_addrHL
    [] opcode = 95 -> OpLD_r_r(s, "e", "a")                   \* 0x5F LD_E_A
    [] opcode = 96 -> OpLD_r_r(s, "h", "b")                   \* 0x60 LD_H_B
    [] opcode = 97 -> OpLD_r_r(s, "h", "c")                   \* 0x61 LD_H_C
    [] opcode = 98 -> OpLD_r_r(s, "h", "d")                   \* 0x62 LD_H_D
    [] opcode = 99 -> OpLD_r_r(s, "h", "e")                   \* 0x63 LD_H_E
    [] opcode = 100 -> OpNOP(s)                                \* 0x64 LD_H_H
    [] opcode = 101 -> OpLD_r_r(s, "h", "l")                   \* 0x65 LD_H_L
    [] opcode = 102 -> OpLD_r_addrHL(s, "h")                   \* 0x66 LD_H_addrHL
    [] opcode = 103 -> OpLD_r_r(s, "h", "a")                   \* 0x67 LD_H_A
    [] opcode = 104 -> OpLD_r_r(s, "l", "b")                   \* 0x68 LD_L_B
    [] opcode = 105 -> OpLD_r_r(s, "l", "c")                   \* 0x69 LD_L_C
    [] opcode = 106 -> OpLD_r_r(s, "l", "d")                   \* 0x6A LD_L_D
    [] opcode = 107 -> OpLD_r_r(s, "l", "e")                   \* 0x6B LD_L_E
    [] opcode = 108 -> OpLD_r_r(s, "l", "h")                   \* 0x6C LD_L_H
    [] opcode = 109 -> OpNOP(s)                                \* 0x6D LD_L_L
    [] opcode = 110 -> OpLD_r_addrHL(s, "l")                   \* 0x6E LD_L_addrHL
    [] opcode = 111 -> OpLD_r_r(s, "l", "a")                   \* 0x6F LD_L_A
    [] opcode = 112 -> OpLD_addrHL_r(s, "b")                   \* 0x70 LD_addrHL_B
    [] opcode = 113 -> OpLD_addrHL_r(s, "c")                   \* 0x71 LD_addrHL_C
    [] opcode = 114 -> OpLD_addrHL_r(s, "d")                   \* 0x72 LD_addrHL_D
    [] opcode = 115 -> OpLD_addrHL_r(s, "e")                   \* 0x73 LD_addrHL_E
    [] opcode = 116 -> OpLD_addrHL_r(s, "h")                   \* 0x74 LD_addrHL_H
    [] opcode = 117 -> OpLD_addrHL_r(s, "l")                   \* 0x75 LD_addrHL_L
    [] opcode = 118 -> OpHALT(s)                               \* 0x76 HALT
    [] opcode = 119 -> OpLD_addrHL_r(s, "a")                   \* 0x77 LD_addrHL_A
    [] opcode = 120 -> OpLD_r_r(s, "a", "b")                   \* 0x78 LD_A_B
    [] opcode = 121 -> OpLD_r_r(s, "a", "c")                   \* 0x79 LD_A_C
    [] opcode = 122 -> OpLD_r_r(s, "a", "d")                   \* 0x7A LD_A_D
    [] opcode = 123 -> OpLD_r_r(s, "a", "e")                   \* 0x7B LD_A_E
    [] opcode = 124 -> OpLD_r_r(s, "a", "h")                   \* 0x7C LD_A_H
    [] opcode = 125 -> OpLD_r_r(s, "a", "l")                   \* 0x7D LD_A_L
    [] opcode = 126 -> OpLD_r_addrHL(s, "a")                   \* 0x7E LD_A_addrHL
    [] opcode = 127 -> OpNOP(s)                                \* 0x7F LD_A_A
    [] opcode = 128 -> OpALU_r(s, "ADD", "b")                  \* 0x80 ADD_A_B
    [] opcode = 129 -> OpALU_r(s, "ADD", "c")                  \* 0x81 ADD_A_C
    [] opcode = 130 -> OpALU_r(s, "ADD", "d")                  \* 0x82 ADD_A_D
    [] opcode = 131 -> OpALU_r(s, "ADD", "e")                  \* 0x83 ADD_A_E
    [] opcode = 132 -> OpALU_r(s, "ADD", "h")                  \* 0x84 ADD_A_H
    [] opcode = 133 -> OpALU_r(s, "ADD", "l")                  \* 0x85 ADD_A_L
    [] opcode = 134 -> OpALU_addrHL(s, "ADD")                  \* 0x86 ADD_A_addrHL
    [] opcode = 135 -> OpALU_r(s, "ADD", "a")                  \* 0x87 ADD_A_A
    [] opcode = 136 -> OpALU_r(s, "ADC", "b")                  \* 0x88 ADC_A_B
    [] opcode = 137 -> OpALU_r(s, "ADC", "c")                  \* 0x89 ADC_A_C
    [] opcode = 138 -> OpALU_r(s, "ADC", "d")                  \* 0x8A ADC_A_D
    [] opcode = 139 -> OpALU_r(s, "ADC", "e")                  \* 0x8B ADC_A_E
    [] opcode = 140 -> OpALU_r(s, "ADC", "h")                  \* 0x8C ADC_A_H
    [] opcode = 141 -> OpALU_r(s, "ADC", "l")                  \* 0x8D ADC_A_L
    [] opcode = 142 -> OpALU_addrHL(s, "ADC")                  \* 0x8E ADC_A_addrHL
    [] opcode = 143 -> OpALU_r(s, "ADC", "a")                  \* 0x8F ADC_A_A
    [] opcode = 144 -> OpALU_r(s, "SUB", "b")                  \* 0x90 SUB_B
    [] opcode = 145 -> OpALU_r(s, "SUB", "c")                  \* 0x91 SUB_C
    [] opcode = 146 -> OpALU_r(s, "SUB", "d")                  \* 0x92 SUB_D
    [] opcode = 147 -> OpALU_r(s, "SUB", "e")                  \* 0x93 SUB_E
    [] opcode = 148 -> OpALU_r(s, "SUB", "h")                  \* 0x94 SUB_H
    [] opcode = 149 -> OpALU_r(s, "SUB", "l")                  \* 0x95 SUB_L
    [] opcode = 150 -> OpALU_addrHL(s, "SUB")                  \* 0x96 SUB_addrHL
    [] opcode = 151 -> OpALU_r(s, "SUB", "a")                  \* 0x97 SUB_A
    [] opcode = 152 -> OpALU_r(s, "SBC", "b")                  \* 0x98 SBC_A_B
    [] opcode = 153 -> OpALU_r(s, "SBC", "c")                  \* 0x99 SBC_A_C
    [] opcode = 154 -> OpALU_r(s, "SBC", "d")                  \* 0x9A SBC_A_D
    [] opcode = 155 -> OpALU_r(s, "SBC", "e")                  \* 0x9B SBC_A_E
    [] opcode = 156 -> OpALU_r(s, "SBC", "h")                  \* 0x9C SBC_A_H
    [] opcode = 157 -> OpALU_r(s, "SBC", "l")                  \* 0x9D SBC_A_L
    [] opcode = 158 -> OpALU_addrHL(s, "SBC")                  \* 0x9E SBC_A_addrHL
    [] opcode = 159 -> OpALU_r(s, "SBC", "a")                  \* 0x9F SBC_A_A
    [] opcode = 160 -> OpALU_r(s, "AND", "b")                  \* 0xA0 AND_B
    [] opcode = 161 -> OpALU_r(s, "AND", "c")                  \* 0xA1 AND_C
    [] opcode = 162 -> OpALU_r(s, "AND", "d")                  \* 0xA2 AND_D
    [] opcode = 163 -> OpALU_r(s, "AND", "e")                  \* 0xA3 AND_E
    [] opcode = 164 -> OpALU_r(s, "AND", "h")                  \* 0xA4 AND_H
    [] opcode = 165 -> OpALU_r(s, "AND", "l")                  \* 0xA5 AND_L
    [] opcode = 166 -> OpALU_addrHL(s, "AND")                  \* 0xA6 AND_addrHL
    [] opcode = 167 -> OpALU_r(s, "AND", "a")                  \* 0xA7 AND_A
    [] opcode = 168 -> OpALU_r(s, "XOR", "b")                  \* 0xA8 XOR_B
    [] opcode = 169 -> OpALU_r(s, "XOR", "c")                  \* 0xA9 XOR_C
    [] opcode = 170 -> OpALU_r(s, "XOR", "d")                  \* 0xAA XOR_D
    [] opcode = 171 -> OpALU_r(s, "XOR", "e")                  \* 0xAB XOR_E
    [] opcode = 172 -> OpALU_r(s, "XOR", "h")                  \* 0xAC XOR_H
    [] opcode = 173 -> OpALU_r(s, "XOR", "l")                  \* 0xAD XOR_L
    [] opcode = 174 -> OpALU_addrHL(s, "XOR")                  \* 0xAE XOR_addrHL
    [] opcode = 175 -> OpALU_r(s, "XOR", "a")                  \* 0xAF XOR_A
    [] opcode = 176 -> OpALU_r(s, "OR", "b")                   \* 0xB0 OR_B
    [] opcode = 177 -> OpALU_r(s, "OR", "c")                   \* 0xB1 OR_C
    [] opcode = 178 -> OpALU_r(s, "OR", "d")                   \* 0xB2 OR_D
    [] opcode = 179 -> OpALU_r(s, "OR", "e")                   \* 0xB3 OR_E
    [] opcode = 180 -> OpALU_r(s, "OR", "h")                   \* 0xB4 OR_H
    [] opcode = 181 -> OpALU_r(s, "OR", "l")                   \* 0xB5 OR_L
    [] opcode = 182 -> OpALU_addrHL(s, "OR")                   \* 0xB6 OR_addrHL
    [] opcode = 183 -> OpALU_r(s, "OR", "a")                   \* 0xB7 OR_A
    [] opcode = 184 -> OpALU_r(s, "CP", "b")                   \* 0xB8 CP_B
    [] opcode = 185 -> OpALU_r(s, "CP", "c")                   \* 0xB9 CP_C
    [] opcode = 186 -> OpALU_r(s, "CP", "d")                   \* 0xBA CP_D
    [] opcode = 187 -> OpALU_r(s, "CP", "e")                   \* 0xBB CP_E
    [] opcode = 188 -> OpALU_r(s, "CP", "h")                   \* 0xBC CP_H
    [] opcode = 189 -> OpALU_r(s, "CP", "l")                   \* 0xBD CP_L
    [] opcode = 190 -> OpALU_addrHL(s, "CP")                   \* 0xBE CP_addrHL
    [] opcode = 191 -> OpALU_r(s, "CP", "a")                   \* 0xBF CP_A
    [] opcode = 192 -> OpRET_cc(s, "NZ")                       \* 0xC0 RET_NZ
    [] opcode = 193 -> OpPOP_rr(s, "b", "c")                   \* 0xC1 POP_BC
    [] opcode = 194 -> OpJP_cc_a16(s, "NZ")                    \* 0xC2 JP_NZ_a16
    [] opcode = 195 -> OpJP_a16(s)                             \* 0xC3 JP_a16
    [] opcode = 196 -> OpCALL_cc_a16(s, "NZ")                  \* 0xC4 CALL_NZ_a16
    [] opcode = 197 -> OpPUSH_rr(s, "b", "c")                  \* 0xC5 PUSH_BC
    [] opcode = 198 -> OpALU_d8(s, "ADD")                      \* 0xC6 ADD_A_d8
    [] opcode = 199 -> OpRST(s, 0)                             \* 0xC7 RST_00H
    [] opcode = 200 -> OpRET_cc(s, "Z")                        \* 0xC8 RET_Z
    [] opcode = 201 -> OpRET(s)                                \* 0xC9 RET
    [] opcode = 202 -> OpJP_cc_a16(s, "Z")                     \* 0xCA JP_Z_a16
    [] opcode = 203 -> OpPREFIX_CB(s)                          \* 0xCB PREFIX_CB
    [] opcode = 204 -> OpCALL_cc_a16(s, "Z")                   \* 0xCC CALL_Z_a16
    [] opcode = 205 -> OpCALL_a16(s)                           \* 0xCD CALL_a16
    [] opcode = 206 -> OpALU_d8(s, "ADC")                      \* 0xCE ADC_A_d8
    [] opcode = 207 -> OpRST(s, 8)                             \* 0xCF RST_08H
    [] opcode = 208 -> OpRET_cc(s, "NC")                       \* 0xD0 RET_NC
    [] opcode = 209 -> OpPOP_rr(s, "d", "e")                   \* 0xD1 POP_DE
    [] opcode = 210 -> OpJP_cc_a16(s, "NC")                    \* 0xD2 JP_NC_a16
    [] opcode = 212 -> OpCALL_cc_a16(s, "NC")                  \* 0xD4 CALL_NC_a16
    [] opcode = 213 -> OpPUSH_rr(s, "d", "e")                  \* 0xD5 PUSH_DE
    [] opcode = 214 -> OpALU_d8(s, "SUB")                      \* 0xD6 SUB_d8
    [] opcode = 215 -> OpRST(s, 16)                            \* 0xD7 RST_10H
    [] opcode = 216 -> OpRET_cc(s, "C")                        \* 0xD8 RET_C
    [] opcode = 217 -> OpRETI(s)                               \* 0xD9 RETI
    [] opcode = 218 -> OpJP_cc_a16(s, "C")                     \* 0xDA JP_C_a16
    [] opcode = 220 -> OpCALL_cc_a16(s, "C")                   \* 0xDC CALL_C_a16
    [] opcode = 222 -> OpALU_d8(s, "SBC")                      \* 0xDE SBC_A_d8
    [] opcode = 223 -> OpRST(s, 24)                            \* 0xDF RST_18H
    [] opcode = 224 -> OpLDH_a8_A(s)                           \* 0xE0 LDH_a8_A
    [] opcode = 225 -> OpPOP_rr(s, "h", "l")                   \* 0xE1 POP_HL
    [] opcode = 226 -> OpLD_addrC_A(s)                         \* 0xE2 LD_addrC_A
    [] opcode = 229 -> OpPUSH_rr(s, "h", "l")                  \* 0xE5 PUSH_HL
    [] opcode = 230 -> OpALU_d8(s, "AND")                      \* 0xE6 AND_d8
    [] opcode = 231 -> OpRST(s, 32)                            \* 0xE7 RST_20H
    [] opcode = 232 -> OpADD_SP_r8(s)                          \* 0xE8 ADD_SP_r8
    [] opcode = 233 -> OpJP_HL(s)                              \* 0xE9 JP_HL
    [] opcode = 234 -> OpLD_a16_A(s)                           \* 0xEA LD_a16_A
    [] opcode = 238 -> OpALU_d8(s, "XOR")                      \* 0xEE XOR_d8
    [] opcode = 239 -> OpRST(s, 40)                            \* 0xEF RST_28H
    [] opcode = 240 -> OpLDH_A_a8(s)                           \* 0xF0 LDH_A_a8
    [] opcode = 241 -> OpPOP_AF(s)                             \* 0xF1 POP_AF
    [] opcode = 242 -> OpLD_A_addrC(s)                         \* 0xF2 LD_A_addrC
    [] opcode = 243 -> OpDI(s)                                 \* 0xF3 DI
    [] opcode = 245 -> OpPUSH_rr(s, "a", "f")                  \* 0xF5 PUSH_AF
    [] opcode = 246 -> OpALU_d8(s, "OR")                       \* 0xF6 OR_d8
    [] opcode = 247 -> OpRST(s, 48)                            \* 0xF7 RST_30H
    [] opcode = 248 -> OpLD_HL_SPplusr8(s)                     \* 0xF8 LD_HL_SPplusr8
    [] opcode = 249 -> OpLD_SP_HL(s)                           \* 0xF9 LD_SP_HL
    [] opcode = 250 -> OpLD_A_a16(s)                           \* 0xFA LD_A_a16
    [] opcode = 251 -> OpEI(s)                                 \* 0xFB EI
    [] opcode = 254 -> OpALU_d8(s, "CP")                       \* 0xFE CP_d8
    [] opcode = 255 -> OpRST(s, 56)                            \* 0xFF RST_38H
    [] opcode \in IllegalOpcodes -> OpIllegal(s)

Step(s) ==
  Bind(FetchOpcode(s), LAMBDA opcode : Execute(opcode.s, opcode.val))

(***************************************************************************)
(* The calls a host makes.  last records the latest call and its           *)
(* arguments (for Step: the address and the byte of the opcode fetch).     *)
(* ops_left and steps_left are the calls the run may still make.  A call   *)
(* whose memory access faults ends the process: crashed is set and nothing *)
(* else is observable.                                                     *)
(***************************************************************************)
Call(op, address, value) == [op |-> op, address |-> address, value |-> value]

CallLoadROM(rom_data) ==
  /\ ~crashed
  /\ loads_left > 0
  /\ mmu' = LoadROM(mmu, rom_data)
  /\ last' = Call("LoadROM", 0, 0)
  /\ loads_left' = loads_left - 1
  /\ UNCHANGED <<cpu, crashed, cerr, divTraps, ops_left, steps_left>>

CallWrite(address, value) ==
  /\ ~crashed
  /\ ops_left > 0
  /\ IF WriteFaults(mmu, address, value)
     THEN crashed' = TRUE /\ UNCHANGED mmu
     ELSE mmu' = Write(mmu, address, value) /\ UNCHANGED crashed
  /\ last' = Call("Write", address, value)
  /\ ops_left' = ops_left - 1
  /\ UNCHANGED <<cpu, cerr, divTraps, loads_left, steps_left>>

\* A Read that returns changes nothing; only a faulting Read is a step.
CallRead(address) ==
  /\ ~crashed
  /\ ReadFaults(mmu, address)
  /\ crashed' = TRUE
  /\ last' = Call("Read", address, 0)
  /\ UNCHANGED <<cpu, mmu, cerr, divTraps, ops_left, loads_left, steps_left>>

CallMmuReset ==
  /\ ~crashed
  /\ ops_left > 0
  /\ mmu' = MmuReset(mmu)
  /\ last' = Call("MmuReset", 0, 0)
  /\ ops_left' = ops_left - 1
  /\ UNCHANGED <<cpu, crashed, cerr, divTraps, loads_left, steps_left>>

CallCpuReset ==
  /\ ~crashed
  /\ ops_left > 0
  /\ cpu' = CpuReset
  /\ last' = Call("CpuReset", 0, 0)
  /\ ops_left' = ops_left - 1
  /\ UNCHANGED <<mmu, crashed, cerr, divTraps, loads_left, steps_left>>

\* the machine after a step becomes the state, and the lines the step wrote
\* are on std::cerr; a faulted step leaves a dead process
Commit(n) ==
  IF n.crashed
  THEN crashed' = TRUE /\ UNCHANGED <<cpu, mmu, cerr>>
  ELSE cpu' = n.cpu /\ mmu' = n.mmu /\ cerr' = cerr + n.cerr
       /\ UNCHANGED crashed

CallStep ==
  /\ ~crashed
  /\ steps_left > 0
  /\ Commit(Step(Machine(cpu, mmu)))
  /\ last' = Call("Step", cpu.pc, Read(mmu, cpu.pc))
  /\ steps_left' = steps_left - 1
  /\ UNCHANGED <<divTraps, ops_left, loads_left>>

\* State after construction of the MMU singleton and CPU::Reset (main.cpp
\* and the test fixture reset the CPU before any step).  divTraps is fixed
\* by the build.
Constructed ==
  /\ cpu = CpuReset
  /\ mmu = MmuInit
  /\ crashed = FALSE
  /\ cerr = 0
  /\ divTraps \in BOOLEAN
  /\ last = Call("Init", 0, 0)

(***************************************************************************)
(* Runs of the MMU alone.                                                  *)
(***************************************************************************)
\* image lengths: half a bank, two banks, sixty-four banks (none is loaded at
\* first)
MmuRomSizes == {8192, 32768, 1048576}

MmuImages == {[size |-> n, code |-> <<>>] : n \in MmuRomSizes}

\* one address per mapper register range / values whose masked fields differ
MapperAddrs == {0, 8192, 16384, 24576}
MapperVals == {0, 1, 250}

\* VRAM, external RAM, work RAM 0 and 1, echo, OAM, unusable, I/O, HRAM,
\* interrupt enable
MemAddrs == {32768, 40960, 49152, 57343, 57344, 65183, 65184, 65534, 65535}
MemVals == {85}

\* DMA source pages: switchable ROM, work RAM
DmaPages == {64, 192}

WriteInputs ==
  (MapperAddrs \X MapperVals) \cup (MemAddrs \X MemVals) \cup ({65350} \X DmaPages)

\* addresses at which reads are observed: first and last of every region
ProbeAddrs ==
  {0, 256, 16383, 16384, 32767, 32768, 40959, 40960, 49151, 49152, 53247,
   53248, 57343, 57344, 65023, 65024, 65183, 65184, 65279, 65280, 65350,
   65407, 65408, 65534, 65535}

InitMMU ==
  Constructed /\ ops_left = MaxOps /\ loads_left = MaxLoads /\ steps_left = 0

NextMMU ==
  \/ \E rom_data \in MmuImages : CallLoadROM(rom_data)
  \/ \E w \in WriteInputs : CallWrite(w[1], w[2])
  \/ CallMmuReset
  \/ \E address \in ProbeAddrs : CallRead(address)

SpecMMU == InitMMU /\ [][NextMMU]_vars

(***************************************************************************)
(* Runs of the MMU that exercise the memory regions: writes to both ends   *)
(* of every region with two values, DMA from every kind of source, and the *)
(* mapper writes that change what a source page reads as.                  *)
(***************************************************************************)
\* host calls (Write, MMU::Reset) per run
MaxMemOps == 3

\* RAM enable, ROM bank 2, RAM bank 1 / ROM bank bits 5-6, banking mode 1
MemMapperWrites == {<<0, 10>>, <<8192, 2>>, <<16384, 1>>, <<24576, 1>>}

\* VRAM, external RAM, work RAM 0, work RAM 1 (with and without an echo
\* alias), echo of both, OAM, unusable, I/O, HRAM, interrupt enable
MemRegionAddrs ==
  {32768, 40959, 40960, 49152, 53248, 56831, 57343, 57344, 61440, 65023,
   65024, 65183, 65184, 65280, 65407, 65408, 65534, 65535}

\* a non-zero byte, and zero to overwrite it
MemRegionVals == {0, 165}

\* DMA source pages: fixed ROM, switchable ROM, VRAM, external RAM, work
\* RAM, echo, OAM itself, I/O and HRAM
MemDmaPages == {0, 64, 128, 160, 192, 224, 254, 255}

MemWrites ==
  MemMapperWrites \cup (MemRegionAddrs \X MemRegionVals)
  \cup ({65350} \X MemDmaPages)

\* an image of less than one bank and one of four banks
MemImages == {[size |-> n, code |-> <<>>] : n \in {8192, 65536}}

InitMem ==
  Constructed /\ ops_left = MaxMemOps /\ loads_left = MaxLoads /\ steps_left = 0

NextMem ==
  \/ \E rom_data \in MemImages : CallLoadROM(rom_data)
  \/ \E w \in MemWrites : CallWrite(w[1], w[2])
  \/ CallMmuReset
  \/ \E address \in ProbeAddrs : CallRead(address)

SpecMem == InitMem /\ [][NextMem]_vars

(***************************************************************************)
(* Runs of the machine: a two-bank image whose entry point holds one       *)
(* instruction (every opcode byte, a few operand pairs) or a short         *)
(* program, the writes the CPU tests make, resets and steps.               *)
(***************************************************************************)
Operands == {<<0, 0>>, <<15, 192>>, <<255, 255>>}

Programs ==
  { <<49, 0, 1, 241>>,          \* LD SP,0x0100 ; POP AF
    <<1, 15, 18, 197, 241>> }   \* LD BC,0x120F ; PUSH BC ; POP AF

ProgImages ==
  {[size |-> 32768, code |-> <<op, x[1], x[2]>>] : op \in Byte, x \in Operands}
  \cup {[size |-> 32768, code |-> p] : p \in Programs}
  \cup {[size |-> 32768, code |-> <<251, op, 15, 192>>] : op \in Byte}

HostWrites == {<<256, 0>>, <<256, 62>>, <<257, 66>>, <<65534, 255>>}

Init ==
  /\ Constructed
  /\ ops_left = MaxHostOps /\ loads_left = MaxLoads /\ steps_left = MaxSteps

Next ==
  \/ \E rom_data \in ProgImages : CallLoadROM(rom_data)
  \/ \E w \in HostWrites : CallWrite(w[1], w[2])
  \/ CallMmuReset
  \/ CallCpuReset
  \/ CallStep
  \/ \E address \in ProbeAddrs : CallRead(address)

Spec == Init /\ [][Next]_vars

(***************************************************************************)
(* Runs of short programs: stack, call/return, relative jump and SP-offset *)
(* sequences at the entry point of a two-bank image, with the stack        *)
(* pointer in every kind of region, and the host writes that enable        *)
(* external RAM or place a relative jump at the top of the address space.  *)
(***************************************************************************)
\* CPU::Step calls per run
MaxProgSteps == 4
\* host writes per run
MaxProgOps == 2

\* LD SP,d16 operands (low, high): work RAM, the echo / work RAM boundary,
\* 0x0000 (the stack wraps to 0xFFFF and 0xFFFE), VRAM, I/O around 0xFF46,
\* external RAM, ROM, the OAM / unusable boundary, 0x0001 (0x0000 and 0xFFFF)
StackPointers ==
  {<<0, 193>>, <<1, 224>>, <<0, 0>>, <<2, 128>>, <<72, 255>>, <<2, 160>>,
   <<0, 1>>, <<161, 254>>, <<1, 0>>}

\* LD rr,d16 ; PUSH rr ; POP rr  and  SUB d8 ; PUSH AF ; POP AF
PushPopPrograms ==
  { <<1, 15, 18, 197, 193>>, <<17, 90, 165, 213, 209>>,
    <<33, 1, 255, 229, 225>>, <<214, 15, 245, 241>> }

\* CALL (conditional or not) to a RET, RET cc or RETI in the image, behind
\* XOR A or SCF where the condition needs a flag; RST to a vector
CallPrograms ==
  { <<205, 201, 0>>, <<196, 201, 0>>, <<212, 201, 0>>, <<204, 201, 0>>,
    <<175, 204, 200, 0>>, <<55, 220, 216, 0>>, <<205, 192, 0>>,
    <<205, 208, 0>>, <<205, 217, 0>>, <<205, 200, 0>> }
  \cup {<<199 + 8 * n>> : n \in 0..7}

\* JR offsets: 0, +15, +127, -128, -1
JrOffsets == {0, 15, 127, 128, 255}

\* JR and JR cc with the flags of Reset, after XOR A (Z set) and after SCF
\* (C set); JP 0xFFFE, where host writes place a JR
JrPrograms ==
  {<<op, off>> : op \in {24, 32, 40, 48, 56}, off \in JrOffsets}
  \cup {<<175, op, off>> : op \in {32, 40}, off \in JrOffsets}
  \cup {<<55, op, off>> : op \in {48, 56}, off \in JrOffsets}
  \cup {<<195, 254, 255>>}

\* ADD SP,r8 from 0x0000, 0x00FF and 0xFFFE, with clear and with set flags
AddSpPrograms ==
  { <<49, 0, 0, 232, 255>>, <<49, 255, 0, 232, 1>>, <<232, 1>>, <<232, 2>>,
    <<232, 255>>, <<232, 128>>, <<175, 232, 1>>, <<214, 15, 232, 255>> }

\* with them: EI ; NOP, EI ; HALT ; NOP and EI ; DI, and
\* LD SP,0x0100 ; LD BC,0x0A00 ; PUSH BC, whose two bytes go to the
\* RAM-enable register, which keeps the second
StackPrograms ==
  PushPopPrograms \cup CallPrograms \cup JrPrograms \cup AddSpPrograms
  \cup {<<251, 0>>, <<251, 118, 0>>, <<251, 243>>}
  \cup {<<49, 0, 1, 1, 0, 10, 197>>}
  \cup {<<49, x[1], x[2]>> \o p : x \in StackPointers,
           p \in {<<1, 15, 18, 197, 193>>, <<214, 15, 245, 241>>,
                   <<205, 201, 0>>, <<255>>}}

StackImages == {[size |-> 32768, code |-> p] : p \in StackPrograms}

\* RAM enable; JR +16 at 0xFFFE (its operand is the interrupt-enable byte);
\* a joypad interrupt request in the interrupt-flag byte
ProgWrites == {<<0, 10>>, <<65534, 24>>, <<65535, 16>>, <<65295, 16>>}

InitProg ==
  /\ Constructed
  /\ ops_left = MaxProgOps /\ loads_left = MaxLoads /\ steps_left = MaxProgSteps

NextProg ==
  \/ \E rom_data \in StackImages : CallLoadROM(rom_data)
  \/ \E w \in ProgWrites : CallWrite(w[1], w[2])
  \/ CallStep

SpecProg == InitProg /\ [][NextProg]_vars

(***************************************************************************)
(* Runs of decimal arithmetic: LD A,x ; op A,y ; DAA for packed-BCD bytes  *)
(* x and y, op one of ADD, ADC, SUB, SBC, behind SCF for a carry-in.       *)
(***************************************************************************)
\* CPU::Step calls per run
MaxBcdSteps == 4

BcdDigits == {0, 1, 4, 5, 8, 9}

BcdBytes == {16 * hi + lo : hi \in BcdDigits, lo \in BcdDigits}

\* ADD A,d8 ; ADC A,d8 ; SUB d8 ; SBC A,d8
BcdOps == {198, 206, 214, 222}

BcdPrograms ==
  {<<62, x, op, y, 39>> : x \in BcdBytes, y \in BcdBytes, op \in BcdOps}
  \cup {<<55, 62, x, op, y, 39>> : x \in BcdBytes, y \in BcdBytes, op \in {206, 222}}

BcdImages == {[size |-> 32768, code |-> p] : p \in BcdPrograms}

InitBcd ==
  /\ Constructed
  /\ ops_left = 0 /\ loads_left = MaxLoads /\ steps_left = MaxBcdSteps

NextBcd ==
  \/ (loads_left > 0 /\ \E rom_data \in BcdImages : CallLoadROM(rom_data))
  \/ CallStep

SpecBcd == InitBcd /\ [][NextBcd]_vars

(***************************************************************************)
(* Runs of arithmetic and flags, from the initial state of the decimal     *)
(* runs and with the image loaded before the first step.  The images hold: *)
(*  - CP 0 (Z and N set) ; LD SP,v ; ADD SP,r8 or LD HL,SP+r8, for every   *)
(*    offset byte and the stack pointers v whose low byte has both nibbles *)
(*    in {0, 1 or 7, 8, 0xF} and whose high byte is 0x00 or 0xFF;          *)
(*  - LD A,x ; op y, with and without SCF in front, op one of ADD A,d8,    *)
(*    ADC A,d8, SUB d8, SBC A,d8, CP d8 and both nibbles of x and y in     *)
(*    {0, 1, 7, 8, 0xF};                                                   *)
(*  - every opcode byte with two operand pairs behind a prefix: nothing    *)
(*    (F = 0x00), SUB 0x0F (F = 0x70, A = 0xF1), LD SP,0x00F0 ; POP AF     *)
(*    (F = 0xF0 from the image), XOR A ; SCF (F = 0x90), SCF ; LD A,0xFF,  *)
(*    SCF ; LD A,0x0F, LD A,0xFF, EI ; LD HL,0xC0FF.                       *)
(***************************************************************************)
AluImages ==
  LET sps == {256 * hi + 16 * a + b : hi \in {0, 255}, a \in {0, 7, 8, 15},
                                     b \in {0, 1, 8, 15}}
      bytes == {16 * hi + lo : hi \in {0, 1, 7, 8, 15}, lo \in {0, 1, 7, 8, 15}}
      ops == {198, 206, 214, 222, 254}
      prefixes == { <<>>, <<214, 15>>, <<49, 240, 0, 241>>, <<175, 55>>,
                    <<55, 62, 255>>, <<55, 62, 15>>, <<62, 255>>,
                    <<251, 33, 255, 192>> }
      programs ==
        {<<254, 0, 49, v % 256, v \div 256, op, off>> :
           v \in sps, op \in {232, 248}, off \in Byte}
        \cup {<<62, x, op, y>> : x \in bytes, y \in bytes, op \in ops}
        \cup {<<55, 62, x, op, y>> : x \in bytes, y \in bytes, op \in ops}
        \cup {pre \o <<op, x[1], x[2]>> :
                pre \in prefixes, op \in Byte, x \in {<<0, 0>>, <<15, 192>>}}
  IN {[size |-> 32768, code |-> p] : p \in programs}

NextAlu ==
  \/ (loads_left > 0 /\ \E rom_data \in AluImages : CallLoadROM(rom_data))
  \/ (loads_left = 0 /\ CallStep)

SpecAlu == InitBcd /\ [][NextAlu]_vars

(***************************************************************************)
(* Runs of external-RAM banking: writes to the RAM-enable, upper-bank and  *)
(* banking-mode registers and to the first and last byte of external RAM   *)
(* (and one byte of VRAM), on a constructed MMU.                           *)
(***************************************************************************)
\* MMU::Write calls per run
MaxRamOps == 5

InitRam ==
  /\ Constructed
  /\ ops_left = MaxRamOps /\ loads_left = 0 /\ steps_left = 0

NextRam ==
  \E w \in { <<0, 10>>, <<0, 0>>, <<16384, 0>>, <<16384, 1>>, <<16384, 3>>,
              <<24576, 0>>, <<24576, 1>>, <<40960, 85>>, <<40960, 170>>,
              <<49151, 85>>, <<32768, 85>> } :
    CallWrite(w[1], w[2])

SpecRam == InitRam /\ [][NextRam]_vars

(***************************************************************************)
(* Properties of the machine (Spec).                                       *)
(***************************************************************************)

\* C1: in every state reachable from CPU::Reset by Step calls, whatever the
\* opcodes and the memory contents, the low nibble of the flags register is
\* zero (F & 0x0F = 0), also right after a POP AF of an arbitrary byte.
C1_FlagsLowNibbleZero == cpu.f % 16 = 0

\* a POP AF has just popped a low byte whose low nibble is not zero, and F
\* holds its high nibble
C1_PopAfOfDirtyByte ==
  /\ last.op = "Step" /\ last.value = 241 /\ ~crashed
  /\ Read(mmu, (cpu.sp - 2) % 65536) % 16 # 0
  /\ cpu.f = Read(mmu, (cpu.sp - 2) % 65536) - (Read(mmu, (cpu.sp - 2) % 65536) % 16)
  /\ cpu.f # 0

\* C2: after MMU reset and CPU reset, the byte 0x00 stored with an MMU write
\* at 0x0100 is the opcode the next Step executes: the Step leaves PC = 0x0101
\* and every other register unchanged.
C2_WrittenNopIsExecuted ==
  [][(/\ cpu = CpuReset
      /\ last = Call("Write", kEntry, 0)
      /\ last'.op = "Step")
     => (~crashed' /\ cpu' = [cpu EXCEPT !.pc = kEntry + 1])]_vars

\* opcodes followed by an 8-bit immediate: LD r,d8 and LD (HL),d8; STOP; the
\* ALU d8 column; LDH (a8),A and LDH A,(a8); ADD SP,r8 and LD HL,SP+r8
C3_Imm8 ==
  {6, 14, 22, 30, 38, 46, 54, 62, 16, 198, 206, 214, 222, 230, 238, 246, 254,
   224, 240, 232, 248}

\* opcodes followed by a 16-bit immediate: LD rr,d16; LD (a16),SP;
\* LD (a16),A and LD A,(a16)
C3_Imm16 == {1, 17, 33, 49, 8, 234, 250}

\* JR, JP, CALL, RET, RETI and RST
C3_Control ==
  {24, 32, 40, 48, 56, 194, 195, 202, 210, 218, 233, 196, 204, 205, 212, 220,
   192, 200, 201, 208, 216, 217, 199, 207, 215, 223, 231, 239, 247, 255}

\* the eleven opcode bytes without an instruction
C4_Undefined == {211, 219, 221, 227, 228, 235, 236, 237, 244, 252, 253}

C3_Length(opcode) ==
  IF opcode \in C3_Imm8 THEN 2 ELSE IF opcode \in C3_Imm16 THEN 3 ELSE 1

\* C3: a Step on an opcode byte that is not a jump, call, return or RST
\* advances PC by the instruction length modulo 2^16 (1 without operand, 2
\* with an 8-bit immediate, STOP included, 3 with a 16-bit immediate), and
\* the operand bytes are the bytes after the opcode, low byte first.
C3_PcAdvancesByLength ==
  [][(/\ last'.op = "Step"
      /\ ~crashed'
      /\ last'.value \notin (C3_Control \cup C4_Undefined))
     => /\ cpu'.pc = (cpu.pc + C3_Length(last'.value)) % 65536
        /\ last'.value = 62 => cpu'.a = Read(mmu, (cpu.pc + 1) % 65536)
        /\ last'.value = 1 =>
             /\ cpu'.c = Read(mmu, (cpu.pc + 1) % 65536)
             /\ cpu'.b = Read(mmu, (cpu.pc + 2) % 65536)
        /\ last'.value = 49 =>
             cpu'.sp = 256 * Read(mmu, (cpu.pc + 2) % 65536)
                       + Read(mmu, (cpu.pc + 1) % 65536)]_vars

\* LD BC,d16 has been executed on the operand bytes 0x0F, 0xC0: three bytes
\* consumed, C holds the first operand byte and B the second
C3_Ld16Executed ==
  /\ last.op = "Step" /\ last.value = 1 /\ ~crashed
  /\ cpu.pc = (last.address + 3) % 65536
  /\ cpu.c = 15 /\ cpu.b = 192

C5_ReadNeverFaults == ~(crashed /\ last.op = "Read")

\* every on-board memory region and the interrupt-enable byte are zero
MemoryZero(u) ==
  /\ u.vram = Zeroed /\ u.ext_ram = Zeroed /\ u.wram0 = Zeroed
  /\ u.wram1 = Zeroed /\ u.oam = Zeroed /\ u.io_regs = Zeroed
  /\ u.hram = Zeroed /\ u.interrupt_enable = 0

\* C6: after MMU::Reset, whatever writes preceded it, every memory region and
\* the interrupt-enable byte are zero and the mapper control registers are
\* back at ram_enable = false, rom_bank_low5 = 1, rom_bank_high2 = 0,
\* banking_mode = 0.
C6_ResetRestoresMemoryAndMapper ==
  last.op = "MmuReset" =>
    /\ MemoryZero(mmu)
    /\ ~mmu.ram_enable /\ mmu.rom_bank_low5 = 1
    /\ mmu.rom_bank_high2 = 0 /\ mmu.banking_mode = 0

C7_ZeroBanks == {0, 32, 64, 96}

\* the latest call is a completed write to the ROM bank register range
C7_AfterBankWrite ==
  /\ last.op = "Write" /\ last.address >= 8192 /\ last.address < 16384
  /\ ~crashed

C8_Bank(u) ==
  IF u.rom.size \div kBankSize = 0
  THEN u.rom_bank_high2 * 32 + u.rom_bank_low5
       + (IF u.rom_bank_low5 = 0 THEN 1 ELSE 0)
  ELSE (u.rom_bank_high2 * 32 + u.rom_bank_low5
        + (IF u.rom_bank_low5 = 0 THEN 1 ELSE 0)) % (u.rom.size \div kBankSize)

\* the byte of the image at an index, 0xFF past the image
C8_RomByte(u, idx) == IF idx < u.rom.size THEN RomAt(u.rom, idx) ELSE 255

C8_Probes == {0, 256, 16383, 16384, 16385, 24576, 32767}

\* C8: Read(a) for a in 0x4000-0x7FFF returns the byte of the image at
\* bank * 0x4000 + (a - 0x4000), 0xFF when that index is past the image, and
\* Read(a) for a in 0x0000-0x3FFF returns the byte of the image at a,
\* whatever the mapper state.
C8_RomReads ==
  \A a \in C8_Probes :
    /\ ~ReadFaults(mmu, a)
    /\ Read(mmu, a) =
         IF a < kBankSize THEN C8_RomByte(mmu, a)
         ELSE C8_RomByte(mmu, C8_Bank(mmu) * kBankSize + (a - kBankSize))

\* C9: a write to an address in 0x0000-0x7FFF changes neither the image nor
\* any memory region: it sets the one mapper field of its range to the masked
\* value and leaves the other three fields unchanged.
C9_MapperWriteSetsOneField ==
  [][(last'.op = "Write" /\ last'.address < 32768)
     => /\ ~crashed'
        /\ mmu' =
             IF last'.address < 8192
             THEN [mmu EXCEPT !.ram_enable = (last'.value % 16 = 10)]
             ELSE IF last'.address < 16384
             THEN [mmu EXCEPT !.rom_bank_low5 = last'.value % 32]
             ELSE IF last'.address < 24576
             THEN [mmu EXCEPT !.rom_bank_high2 = last'.value % 4]
             ELSE [mmu EXCEPT !.banking_mode = last'.value % 2]]_vars

\* 0xFA has been written to 0x2000 while RAM is enabled: low5 is 0x1A and
\* ram_enable, high2 and banking_mode are as they were
C9_BankWriteAfterEnable ==
  /\ last = Call("Write", 8192, 250) /\ ~crashed
  /\ mmu.rom_bank_low5 = 26 /\ mmu.ram_enable
  /\ mmu.rom_bank_high2 = 0 /\ mmu.banking_mode = 0

C10_ExtRam == {40960, 49151}

\* C10 as stated: once RAM is enabled, write(0xA000, v) then read(0xA000)
\* returns v.
C10_EnabledWriteReadsBack ==
  (last.op = "Write" /\ last.address = 40960 /\ mmu.ram_enable /\ ~crashed)
    => Read(mmu, 40960) = last.value

\* C10 amended: while ram_enable is false every read of 0xA000-0xBFFF returns
\* 0xFF and every write to the range changes nothing; while it is true and
\* the RAM bank is 0 (banking_mode = 0 or high2 = 0) a write to the range is
\* read back and a read returns the stored byte; writes to the mapper
\* registers leave the stored bytes unchanged, so a byte written while
\* enabled is read again after a disable and a re-enable.
C10_ExtRamGated ==
  [][/\ ~mmu'.ram_enable => \A a \in C10_ExtRam : Read(mmu', a) = 255
     /\ (mmu'.ram_enable /\ (mmu'.banking_mode = 0 \/ mmu'.rom_bank_high2 = 0))
          => \A a \in C10_ExtRam : Read(mmu', a) = Get(mmu'.ext_ram, a - 40960)
     /\ (last'.op = "Write" /\ last'.address < 32768)
          => mmu'.ext_ram = mmu.ext_ram
     /\ (last'.op = "Write" /\ last'.address \in C10_ExtRam /\ ~crashed')
          => IF ~mmu.ram_enable THEN mmu' = mmu
             ELSE (mmu.banking_mode = 0 \/ mmu.rom_bank_high2 = 0)
                    => Read(mmu', last'.address) = last'.value]_vars

\* RAM has been disabled after a byte was written to 0xA000: the byte is
\* stored and the read returns 0xFF
C10_DisabledAfterWrite ==
  /\ last.op = "Write" /\ last.address < 8192 /\ ~crashed
  /\ ~mmu.ram_enable
  /\ Get(mmu.ext_ram, 0) = 85
  /\ Read(mmu, 40960) = 255

(***************************************************************************)
(* Properties of the memory regions (SpecMem).                             *)
(***************************************************************************)
\* echo addresses observed in every state: first, around the work-RAM bank
\* boundary, last
C11_EchoAddrs == {57344, 57345, 61439, 61440, 65023}

\* C11: a write of v to an echo address a (0xE000-0xFDFF) makes both
\* read(a - 0x2000) and read(a) return v; a write of v to a work-RAM address
\* c (0xC000-0xDDFF) makes read(c + 0x2000) return v; and in every state
\* read(a) = read(a - 0x2000) for the echo addresses a.
C11_EchoAliasesWorkRam ==
  [][/\ (last'.op = "Write" /\ last'.address \in 57344..65023)
        => /\ ~crashed'
           /\ Read(mmu', last'.address) = last'.value
           /\ Read(mmu', last'.address - 8192) = last'.value
     /\ (last'.op = "Write" /\ last'.address \in 49152..56831)
        => /\ ~crashed'
           /\ Read(mmu', last'.address + 8192) = last'.value
     /\ \A a \in C11_EchoAddrs : Read(mmu', a) = Read(mmu', a - 8192)]_vars

\* a non-zero byte has been written through the echo of work-RAM bank 1 and
\* is read at the work-RAM address, next to a byte written to work RAM
\* directly and read through its echo
C11_EchoWriteDone ==
  /\ last = Call("Write", 61440, 165)
  /\ Read(mmu, 53248) = 165
  /\ Read(mmu, 57344) = 165
  /\ mmu.wram0 # Zeroed

\* addresses at which the effect of a write is observed
C12_Probes == ProbeAddrs \cup MemRegionAddrs

\* VRAM, work RAM, OAM, I/O other than 0xFF46, HRAM, interrupt enable
C12_Storage(a) ==
  \/ a \in 32768..40959
  \/ a \in 49152..57343
  \/ a \in 65024..65183
  \/ (a \in 65280..65407 /\ a # 65350)
  \/ a \in 65408..65535

\* the echo alias of a work-RAM address (the address itself if it has none)
C12_Alias(a) == IF a \in 49152..56831 THEN a + 8192 ELSE a

\* C12: a write of v to an address a of VRAM, work RAM, OAM, I/O other than
\* 0xFF46, HRAM or the interrupt-enable byte makes read(a) return v and
\* changes the read value of no other address except the echo alias of a
\* work-RAM address.
C12_WriteReadsBackAndFrames ==
  [][(last'.op = "Write" /\ C12_Storage(last'.address))
     => /\ ~crashed'
        /\ Read(mmu', last'.address) = last'.value
        /\ \A p \in C12_Probes \ {last'.address, C12_Alias(last'.address)} :
             Read(mmu', p) = Read(mmu, p)]_vars

\* a byte has been written to an I/O register while VRAM and HRAM hold
\* bytes written before
C12_IoWriteAmongOthers ==
  /\ last = Call("Write", 65280, 165)
  /\ Read(mmu, 65280) = 165
  /\ Read(mmu, 40959) = 165
  /\ Read(mmu, 65408) = 165

\* C13: a write of v to 0xFF46 completes and makes read(0xFE00 + k), for
\* every k in 0..159, the value read((v << 8) + k) had before the write;
\* afterwards read(0xFF46) = v and nothing but OAM and the I/O byte 0xFF46
\* has changed.
C13_DmaCopiesSourcePage ==
  [][(last'.op = "Write" /\ last'.address = 65350)
     => /\ ~crashed'
        /\ \A k \in 0..(kOamSize - 1) :
             Read(mmu', 65024 + k) = Read(mmu, last'.value * 256 + k)
        /\ Read(mmu', 65350) = last'.value
        /\ mmu' = [mmu EXCEPT !.oam = mmu'.oam,
                              !.io_regs = Put(mmu.io_regs, 70, last'.value)]]_vars

\* C14: LoadROM installs the given image, sets the mapper registers to
\* ram_enable = false, rom_bank_low5 = 1, rom_bank_high2 = 0, banking_mode =
\* 0 whatever they were, and leaves VRAM, external RAM, work RAM, OAM, I/O,
\* HRAM and the interrupt-enable byte as they were.
C14_LoadRomResetsMapperKeepsMemory ==
  [][\A rom_data \in MemImages :
       CallLoadROM(rom_data)
       => mmu' = [mmu EXCEPT !.rom = rom_data,
                             !.ram_enable = FALSE,
                             !.rom_bank_low5 = 1,
                             !.rom_bank_high2 = 0,
                             !.banking_mode = 0]]_vars

\* an image has been loaded over an MMU whose external RAM had been enabled
\* and written, and whose work RAM holds a byte
C14_LoadedOverUsedMemory ==
  /\ last.op = "LoadROM"
  /\ mmu.rom.size = 65536
  /\ mmu.ext_ram # Zeroed
  /\ mmu.wram0 # Zeroed
  /\ ~mmu.ram_enable

(***************************************************************************)
(* Properties of the machine, continued (Spec).                            *)
(***************************************************************************)
\* C15: CPU::Reset, called from any CPU state, leaves PC = 0x0100,
\* SP = 0xFFFE, IME = false and A, F, B, C, D, E, H, L all 0 (and does not
\* touch the MMU).
C15_ResetSetsRegisters ==
  [][(last'.op = "CpuReset")
     => /\ ~crashed'
        /\ cpu' = [ pc |-> 256, sp |-> 65534, ime |-> FALSE,
                    a |-> 0, f |-> 0, b |-> 0, c |-> 0, d |-> 0, e |-> 0,
                    h |-> 0, l |-> 0 ]
        /\ mmu' = mmu]_vars

\* the CPU has been reset after two steps that pushed a word onto the stack
C15_ResetAfterSteps ==
  /\ last.op = "CpuReset"
  /\ steps_left = MaxSteps - 2
  /\ mmu.hram # Zeroed
  /\ cpu.sp = 65534

(***************************************************************************)
(* Properties of short programs (SpecProg).                                *)
(***************************************************************************)
\* PUSH BC, DE, HL, AF; the POP of the same pair is the opcode minus 4
C16_Push == {197, 213, 229, 245}

\* a write to the address stores the byte and a read returns it: VRAM,
\* external RAM while enabled with RAM bank 0, work RAM and its echo, OAM,
\* I/O, HRAM and the interrupt-enable byte
C16_Storage(u, x) ==
  \/ x \in 32768..40959
  \/ (x \in 40960..49151 /\ u.ram_enable /\ CurrentRamBank(u) = 0)
  \/ x \in 49152..65183
  \/ x \in 65280..65535

\* the two bytes of the word on top of the stack are in such memory
C16_StackInMemory(u, sp) ==
  C16_Storage(u, sp) /\ C16_Storage(u, (sp + 1) % 65536)

\* C16 as stated: for every register pair, register value and stack pointer
\* value, PUSH rr leaves the registers as they are and POP rr as the next
\* step restores rr and SP (F with a zero low nibble).
C16_PushPopRestores ==
  [][/\ (last'.op = "Step" /\ ~crashed' /\ last'.value \in C16_Push)
        => cpu' = [cpu EXCEPT !.pc = (@ + 1) % 65536, !.sp = (@ - 2) % 65536]
     /\ (/\ last.op = "Step" /\ last.value \in C16_Push
         /\ last'.op = "Step" /\ last'.value = last.value - 4 /\ ~crashed')
        => /\ cpu' = [cpu EXCEPT !.pc = (@ + 1) % 65536, !.sp = (@ + 2) % 65536]
           /\ cpu'.f % 16 = 0]_vars

\* C16 (stack in memory): PUSH rr changes only PC and SP (SP - 2), and when
\* the two stack bytes lie in readable and writable memory, POP rr as the
\* next step leaves every register as it was before the PUSH and SP back at
\* its value, with the low nibble of F zero.
C16_PushPopRestoresInMemory ==
  [][/\ (last'.op = "Step" /\ ~crashed' /\ last'.value \in C16_Push)
        => cpu' = [cpu EXCEPT !.pc = (@ + 1) % 65536, !.sp = (@ - 2) % 65536]
     /\ (/\ last.op = "Step" /\ last.value \in C16_Push
         /\ last'.op = "Step" /\ last'.value = last.value - 4 /\ ~crashed'
         /\ C16_StackInMemory(mmu, cpu.sp))
        => /\ cpu' = [cpu EXCEPT !.pc = (@ + 1) % 65536, !.sp = (@ + 2) % 65536]
           /\ cpu'.f % 16 = 0]_vars

\* POP BC has restored BC = 0x120F and SP = 0x0000 after a PUSH BC whose
\* bytes went to 0xFFFF (interrupt enable) and 0xFFFE (HRAM)
C16_PushPopAcrossWrap ==
  /\ last.op = "Step" /\ last.value = 193 /\ ~crashed
  /\ Read(mmu, (last.address - 1) % 65536) = 197
  /\ cpu.b = 18 /\ cpu.c = 15 /\ cpu.sp = 0
  /\ mmu.interrupt_enable = 18

\* CALL a16, CALL cc,a16 with cc true, RST n
C17_CallTaken(opcode, c) ==
  \/ opcode = 205
  \/ opcode \in {199 + 8 * n : n \in 0..7}
  \/ (opcode = 196 /\ Cond(c, "NZ")) \/ (opcode = 204 /\ Cond(c, "Z"))
  \/ (opcode = 212 /\ Cond(c, "NC")) \/ (opcode = 220 /\ Cond(c, "C"))

\* RET, RETI, RET cc with cc true
C17_RetTaken(opcode, c) ==
  \/ opcode \in {201, 217}
  \/ (opcode = 192 /\ Cond(c, "NZ")) \/ (opcode = 200 /\ Cond(c, "Z"))
  \/ (opcode = 208 /\ Cond(c, "NC")) \/ (opcode = 216 /\ Cond(c, "C"))

\* length of the call instruction: 1 for RST, 3 for CALL
C17_Len(opcode) == IF opcode \in {199 + 8 * n : n \in 0..7} THEN 1 ELSE 3

\* where the call goes: the RST vector or the 16-bit operand
C17_Target(u, c, opcode) ==
  IF opcode \in {199 + 8 * n : n \in 0..7} THEN opcode - 199
  ELSE Read(u, (c.pc + 1) % 65536) + 256 * Read(u, (c.pc + 2) % 65536)

\* C17 as stated: for every call target and stack pointer value, a taken
\* CALL or RST followed by a taken RET as the next step leaves PC at the
\* address following the call instruction and SP at its value before it.
C17_CallRetReturns ==
  [][/\ (last'.op = "Step" /\ ~crashed' /\ C17_CallTaken(last'.value, cpu))
        => cpu' = [cpu EXCEPT !.pc = C17_Target(mmu, cpu, last'.value),
                              !.sp = (@ - 2) % 65536]
     /\ (/\ last.op = "Step" /\ C17_CallTaken(last.value, cpu)
         /\ last'.op = "Step" /\ C17_RetTaken(last'.value, cpu) /\ ~crashed')
        => /\ cpu'.pc = (last.address + C17_Len(last.value)) % 65536
           /\ cpu'.sp = (cpu.sp + 2) % 65536]_vars

\* C17 (stack in memory): a taken CALL or RST sets PC to its target and SP to
\* SP - 2 and changes no other register; when the two stack bytes lie in
\* readable and writable memory, a taken RET as the next step leaves PC at
\* the address following the call instruction and SP at its value before it.
C17_CallRetReturnsInMemory ==
  [][/\ (last'.op = "Step" /\ ~crashed' /\ C17_CallTaken(last'.value, cpu))
        => cpu' = [cpu EXCEPT !.pc = C17_Target(mmu, cpu, last'.value),
                              !.sp = (@ - 2) % 65536]
     /\ (/\ last.op = "Step" /\ C17_CallTaken(last.value, cpu)
         /\ last'.op = "Step" /\ C17_RetTaken(last'.value, cpu) /\ ~crashed'
         /\ C16_StackInMemory(mmu, cpu.sp))
        => /\ cpu'.pc = (last.address + C17_Len(last.value)) % 65536
           /\ cpu'.sp = (cpu.sp + 2) % 65536]_vars

\* a conditional RET (RET Z at 0x00C8) has returned from a conditional call
\* (CALL Z at 0x0101) to 0x0104 with SP back at 0xFFFE
C17_ConditionalCallReturned ==
  /\ last = Call("Step", 200, 200) /\ ~crashed
  /\ Read(mmu, 257) = 204
  /\ cpu.pc = 260 /\ cpu.sp = 65534

\* JR r8 and JR cc,r8
C18_Jr == {24, 32, 40, 48, 56}

C18_Taken(opcode, c) ==
  \/ opcode = 24
  \/ (opcode = 32 /\ Cond(c, "NZ")) \/ (opcode = 40 /\ Cond(c, "Z"))
  \/ (opcode = 48 /\ Cond(c, "NC")) \/ (opcode = 56 /\ Cond(c, "C"))

\* the offset byte as a signed number
C18_Signed(byte) == byte - (IF byte >= 128 THEN 256 ELSE 0)

\* C18: JR r8 and a taken JR cc,r8 set PC to (PC after the offset byte +
\* the sign-extended offset) modulo 2^16; a JR cc,r8 not taken leaves PC just
\* past the offset byte; no other register changes.  With offset 0xFF the
\* jump lands one below the PC after the operand fetch.
C18_JrLandsAtPcPlusOffset ==
  [][(last'.op = "Step" /\ ~crashed' /\ last'.value \in C18_Jr)
     => cpu' = [cpu EXCEPT !.pc =
                  IF C18_Taken(last'.value, cpu)
                  THEN (((cpu.pc + 2) % 65536)
                        + C18_Signed(Read(mmu, (cpu.pc + 1) % 65536))) % 65536
                  ELSE (cpu.pc + 2) % 65536]]_vars

\* JR with offset 0xFF at 0x0100 (PC = 0x0102 after the operand fetch) has
\* landed at 0x0101
C18_JrMinusOneDone ==
  /\ last = Call("Step", 256, 24) /\ ~crashed
  /\ Read(mmu, 257) = 255
  /\ cpu.pc = 257

\* C19 as stated: ADD SP,r8 with r8 = 0xFF and SP = 0x0000 yields
\* SP = 0xFFFF with H = 1, C = 1, Z = 0, N = 0.
C19_AddSpMinusOneSetsHC ==
  [][(/\ last'.op = "Step" /\ ~crashed' /\ last'.value = 232
      /\ cpu.sp = 0 /\ Read(mmu, (cpu.pc + 1) % 65536) = 255)
     => (cpu'.sp = 65535 /\ cpu'.f = 48)]_vars

\* C19 (low-byte carries): ADD SP,r8 yields SP + the sign-extended offset
\* modulo 2^16 with Z = 0, N = 0, H the carry out of bit 3 and C the carry out
\* of bit 7 of the sum of the low byte of SP and the offset byte; with
\* r8 = 0xFF and SP = 0x0000 that is SP = 0xFFFF with H = 0 and C = 0.
C19_AddSpLowByteCarries ==
  [][(last'.op = "Step" /\ ~crashed' /\ last'.value = 232)
     => /\ cpu'.sp =
             (cpu.sp + C18_Signed(Read(mmu, (cpu.pc + 1) % 65536))) % 65536
        /\ cpu'.f =
             (IF (cpu.sp % 16) + (Read(mmu, (cpu.pc + 1) % 65536) % 16) > 15
              THEN 32 ELSE 0)
             + (IF (cpu.sp % 256) + Read(mmu, (cpu.pc + 1) % 65536) > 255
                THEN 16 ELSE 0)
        /\ (cpu.sp = 0 /\ Read(mmu, (cpu.pc + 1) % 65536) = 255)
           => (cpu'.sp = 65535 /\ cpu'.f = 0)]_vars

\* ADD SP,0xFF has been executed with SP = 0x0000
C19_AddSpMinusOneDone ==
  /\ last = Call("Step", 259, 232) /\ ~crashed
  /\ Read(mmu, 260) = 255
  /\ Read(mmu, 256) = 49 /\ Read(mmu, 257) = 0 /\ Read(mmu, 258) = 0
  /\ cpu.sp = 65535 /\ cpu.f = 0

(***************************************************************************)
(* Properties of decimal arithmetic (SpecBcd).                             *)
(***************************************************************************)
\* the number a packed-BCD byte stands for, and the packed-BCD byte of a
\* number below 100
C20_Dec(byte) == (byte \div 16) * 10 + (byte % 16)
C20_Bcd(n) == (n \div 10) * 16 + (n % 10)

C20_IsBcd(byte) == (byte \div 16) <= 9 /\ (byte % 16) <= 9

\* the decimal result of the operation at address at (LD A,x at at - 2,
\* SCF or not at at - 3): x + y + carry for ADD / ADC, x - y - carry for SUB
\* / SBC, the carry counting for ADC and SBC only
C20_Result(u, at, opcode) ==
  LET x == C20_Dec(Read(u, (at - 1) % 65536))
      y == C20_Dec(Read(u, (at + 1) % 65536))
      cy == IF opcode \in {206, 222} /\ Read(u, (at - 3) % 65536) = 55
            THEN 1 ELSE 0
  IN  IF opcode \in {198, 206} THEN x + y + cy ELSE x - y - cy

\* C20: for packed-BCD bytes x and y, ADD / ADC (either carry-in) followed
\* by DAA leaves A the packed BCD of the decimal sum modulo 100 and C = 1
\* exactly when the sum is at least 100; SUB / SBC followed by DAA leaves A
\* the packed BCD of the decimal difference modulo 100 and C = 1 exactly when
\* a borrow occurred; in both cases Z = (A = 0), H = 0 and N is unchanged.
C20_DaaGivesPackedBcd ==
  [][(/\ last.op = "Step" /\ last.value \in BcdOps
      /\ Read(mmu, (last.address - 2) % 65536) = 62
      /\ C20_IsBcd(Read(mmu, (last.address - 1) % 65536))
      /\ C20_IsBcd(Read(mmu, (last.address + 1) % 65536))
      /\ last'.op = "Step" /\ last'.value = 39)
     => /\ ~crashed'
        /\ cpu'.a = C20_Bcd(C20_Result(mmu, last.address, last.value) % 100)
        /\ GetFlag(cpu'.f, kCarryFlagMask)
             = (C20_Result(mmu, last.address, last.value) \notin 0..99)
        /\ GetFlag(cpu'.f, kZeroFlagMask) = (cpu'.a = 0)
        /\ ~GetFlag(cpu'.f, kHalfCarryFlagMask)
        /\ GetFlag(cpu'.f, kSubtractFlagMask)
             = GetFlag(cpu.f, kSubtractFlagMask)
        /\ GetFlag(cpu'.f, kSubtractFlagMask) = (last.value \in {214, 222})]_vars

\* DAA has adjusted 0x99 + 0x99 + carry (ADC behind SCF) to 0x99 with C = 1,
\* the decimal sum being 199
C20_DaaAfterAdcDone ==
  /\ last = Call("Step", 261, 39) /\ ~crashed
  /\ Read(mmu, 256) = 55 /\ Read(mmu, 259) = 206
  /\ Read(mmu, 258) = 153 /\ Read(mmu, 260) = 153
  /\ cpu.a = 153 /\ GetFlag(cpu.f, kCarryFlagMask)

(***************************************************************************)
(* Interrupts, HALT and the 0xCB prefix (SpecProg, Spec).                  *)
(***************************************************************************)
\* the requested and enabled interrupts: IF & IE, bits 0-4
C21_Pending(u) == BitAnd(BitAnd(Read(u, 65295), Read(u, 65535)), 31)

\* the lowest set bit of a non-zero mask in 0..31: the highest priority
C21_Bit(p) == CHOOSE n \in 0..4 : BitAnd(p, 2 ^ n) # 0 /\ \A m \in 0..(n - 1) : BitAnd(p, 2 ^ m) = 0

\* the machine after the service sequence of the specification
C21_Serviced(s) ==
  Bind(C21_Bit(C21_Pending(s.mmu)), LAMBDA n :
  Bind(MemWrite([s EXCEPT !.cpu.ime = FALSE], 65295,
                Read(s.mmu, 65295) - 2 ^ n), LAMBDA s1 :
    [PushWord(s1, s.cpu.pc) EXCEPT !.cpu.pc = 64 + 8 * n]))

\* C21: a Step taken with IME true and an interrupt pending (IF & IE has one
\* of bits 0-4 set) services the interrupt before any fetch: IME is cleared,
\* the serviced bit of IF is cleared, PC is pushed and PC is the vector of
\* the highest-priority pending interrupt (the step ends there, or goes on
\* to run the instruction at the vector).
C21_StepServicesPendingInterrupt ==
  [][(last'.op = "Step" /\ cpu.ime /\ C21_Pending(mmu) # 0 /\ ~crashed')
       => \/ /\ cpu' = C21_Serviced(Machine(cpu, mmu)).cpu
             /\ mmu' = C21_Serviced(Machine(cpu, mmu)).mmu
          \/ /\ cpu' = Step(C21_Serviced(Machine(cpu, mmu))).cpu
             /\ mmu' = Step(C21_Serviced(Machine(cpu, mmu))).mmu]_vars

\* what the code does instead: the step fetches and executes the opcode at
\* PC with IME still set and IF untouched
C21_StepIgnoresPendingInterrupt ==
  [][(last'.op = "Step" /\ cpu.ime /\ C21_Pending(mmu) # 0 /\ ~crashed'
        /\ last'.value \notin {243, 217})
       => /\ cpu'.ime
          /\ Read(mmu', 65295) = Read(mmu, 65295)
          /\ cpu' = Step(Machine(cpu, mmu)).cpu]_vars

\* a step has been taken with IME set and the joypad interrupt pending
C21_SteppedWhilePending ==
  /\ last.op = "Step" /\ last.value = 0 /\ ~crashed
  /\ cpu.ime /\ C21_Pending(mmu) = 16 /\ cpu.pc = kEntry + 2

\* C22: after a Step that executes HALT (0x76) the CPU is halted: the next
\* Step made while no interrupt is pending (IF & IE = 0) does no work and
\* leaves PC, SP, the registers, the flags and memory unchanged.
C22_StepAfterHaltDoesNoWork ==
  [][(last.op = "Step" /\ last.value = 118 /\ last'.op = "Step"
        /\ C21_Pending(mmu) = 0)
       => ~crashed' /\ cpu' = cpu /\ mmu' = mmu]_vars

\* what the code does instead: HALT changes nothing but PC, and the step
\* after it runs the opcode that follows
C22_HaltIsNop ==
  [][(last'.op = "Step" /\ last'.value = 118 /\ ~crashed')
       => cpu' = [cpu EXCEPT !.pc = (@ + 1) % 65536] /\ mmu' = mmu]_vars

\* a step has run past a HALT with no interrupt pending
C22_RanPastHalt ==
  /\ last.op = "Step" /\ last.address = kEntry + 2 /\ ~crashed
  /\ Read(mmu, kEntry + 1) = 118 /\ C21_Pending(mmu) = 0
  /\ cpu.pc = kEntry + 3

\* C23: a Step on the 0xCB prefix does not end the run, leaves the
\* registers, flags, SP, IME and memory unchanged apart from PC moving past
\* the prefix, and records a condition in the state of the core: the state
\* after it differs from the state a NOP in its place leaves.
C23_PrefixRecordsCondition ==
  [][(last'.op = "Step" /\ last'.value = 203)
       => /\ ~crashed'
          /\ cpu' = [cpu EXCEPT !.pc = (@ + 1) % 65536]
          /\ mmu' = mmu
          /\ <<cpu', mmu'>> #
               <<Execute(FetchOpcode(Machine(cpu, mmu)).s, 0).cpu,
                 Execute(FetchOpcode(Machine(cpu, mmu)).s, 0).mmu>>]_vars

\* what the code does: the step leaves the registers, flags, SP, IME and
\* memory unchanged apart from PC, and writes one line to std::cerr;
\* nothing is latched in the CPU or the MMU
C23_PrefixOnlyWritesCerr ==
  [][(last'.op = "Step" /\ last'.value = 203 /\ ~crashed')
       => /\ cpu' = [cpu EXCEPT !.pc = (@ + 1) % 65536]
          /\ mmu' = mmu
          /\ cerr' = cerr + 1]_vars

\* a step has run on the 0xCB prefix
C23_PrefixStepped ==
  last.op = "Step" /\ last.value = 203 /\ ~crashed /\ cerr = 1

(***************************************************************************)
(* Arithmetic and flags (SpecAlu).                                         *)
(***************************************************************************)
\* the flags byte with the given Z, N, H and C
FlagsByte(z, n, h, cy) ==
  (IF z THEN 128 ELSE 0) + (IF n THEN 64 ELSE 0) + (IF h THEN 32 ELSE 0)
  + (IF cy THEN 16 ELSE 0)

\* the immediate byte of the instruction the step runs
Imm8 == Read(mmu, (cpu.pc + 1) % 65536)

\* C24: for ADD SP,r8 and LD HL,SP+r8 the flags are Z = 0, N = 0 and the
\* low-byte carries H = ((SP & 0x0F) + (offset & 0x0F)) > 0x0F and
\* C = ((SP & 0xFF) + (offset & 0xFF)) > 0xFF, and the result is
\* (SP + sign-extended offset) mod 2^16, in SP for ADD SP,r8 and in HL for
\* LD HL,SP+r8.
C24_SpOffsetFlagsAreLowByteCarries ==
  [][(last'.op = "Step" /\ last'.value \in {232, 248} /\ ~crashed')
       => /\ cpu'.f = FlagsByte(FALSE, FALSE,
                                (cpu.sp % 16) + (Imm8 % 16) > 15,
                                (cpu.sp % 256) + Imm8 > 255)
          /\ (IF last'.value = 232 THEN cpu'.sp ELSE hl(cpu'))
               = (cpu.sp + (IF Imm8 >= 128 THEN Imm8 - 256 ELSE Imm8)) % 65536
          /\ last'.value = 248 => cpu'.sp = cpu.sp]_vars

\* LD HL,SP+r8 has run with SP = 0xFFF8 and r8 = 0x02: HL = 0xFFFA, H = C = 0
C24_LdHlSpPlus2Done ==
  /\ last.op = "Step" /\ last.value = 248 /\ ~crashed
  /\ Read(mmu, last.address + 1) = 2
  /\ cpu.sp = 65528 /\ hl(cpu) = 65530 /\ cpu.f = 0

\* the operand of the 8-bit arithmetic opcode op: the immediate byte, or
\* the register or (HL) the low three bits select
C25_Operand(op) ==
  IF op >= 192 THEN Imm8
  ELSE CASE op % 8 = 0 -> cpu.b [] op % 8 = 1 -> cpu.c
         [] op % 8 = 2 -> cpu.d [] op % 8 = 3 -> cpu.e
         [] op % 8 = 4 -> cpu.h [] op % 8 = 5 -> cpu.l
         [] op % 8 = 6 -> Read(mmu, hl(cpu)) [] op % 8 = 7 -> cpu.a

\* the carry-in of an opcode that adds or subtracts with carry
C25_CarryIn(with_carry) ==
  IF with_carry /\ (cpu.f \div 16) % 2 = 1 THEN 1 ELSE 0

\* C25: ADD and ADC (register, (HL) and immediate forms) leave
\* A = (A + val + c) mod 256 with Z = (A' = 0), N = 0,
\* H = ((A & 0x0F) + (val & 0x0F) + c) > 0x0F and C = (A + val + c) > 0xFF,
\* c being the C flag for ADC and 0 for ADD.
C25_AddAdcResultAndFlags ==
  [][(last'.op = "Step" /\ last'.value \in (128..143) \cup {198, 206}
        /\ ~crashed')
       => LET val == C25_Operand(last'.value)
              c == C25_CarryIn(last'.value \in (136..143) \cup {206})
          IN /\ cpu'.a = (cpu.a + val + c) % 256
             /\ cpu'.f = FlagsByte((cpu.a + val + c) % 256 = 0, FALSE,
                                   (cpu.a % 16) + (val % 16) + c > 15,
                                   cpu.a + val + c > 255)]_vars

\* ADC A,0x00 has run with A = 0xFF and C = 1: A = 0x00, Z = 1, H = 1, C = 1
C25_AdcFFCarryDone ==
  /\ last.op = "Step" /\ last.value = 206 /\ ~crashed
  /\ Read(mmu, last.address + 1) = 0
  /\ Read(mmu, last.address - 2) = 62 /\ Read(mmu, last.address - 1) = 255
  /\ Read(mmu, last.address - 3) = 55
  /\ cpu.pc = last.address + 2
  /\ cpu.a = 0 /\ cpu.f = 176

\* C26: SUB, SBC and CP (register, (HL) and immediate forms) set
\* Z = (low 8 bits of A - val - c = 0), N = 1,
\* H = (A & 0x0F) < ((val & 0x0F) + c) and C = (A < val + c), c being the
\* C flag for SBC and 0 for SUB and CP; SUB and SBC store the low 8 bits
\* in A and CP leaves A unchanged.
C26_SubSbcCpResultAndFlags ==
  [][(last'.op = "Step"
        /\ last'.value \in (144..159) \cup (184..191) \cup {214, 222, 254}
        /\ ~crashed')
       => LET val == C25_Operand(last'.value)
              c == C25_CarryIn(last'.value \in (152..159) \cup {222})
              cp == last'.value \in (184..191) \cup {254}
          IN /\ cpu'.a = IF cp THEN cpu.a ELSE (cpu.a - val - c) % 256
             /\ cpu'.f = FlagsByte((cpu.a - val - c) % 256 = 0, TRUE,
                                   (cpu.a % 16) < (val % 16) + c,
                                   cpu.a < val + c)]_vars

\* CP 0x01 has run with A = 0x10: A is still 0x10, N = 1, H = 1, Z = C = 0
C26_CpBorrowsHalfDone ==
  /\ last.op = "Step" /\ last.value = 254 /\ ~crashed
  /\ Read(mmu, last.address + 1) = 1
  /\ Read(mmu, last.address - 2) = 62 /\ Read(mmu, last.address - 1) = 16
  /\ cpu.a = 16 /\ cpu.f = 96

\* SBC A,0x0F has run with A = 0x10 and C = 1: A = 0x00, Z = 1, N = 1, H = 1
C26_SbcToZeroDone ==
  /\ last.op = "Step" /\ last.value = 222 /\ ~crashed
  /\ Read(mmu, last.address + 1) = 15
  /\ Read(mmu, last.address - 2) = 62 /\ Read(mmu, last.address - 1) = 16
  /\ Read(mmu, last.address - 3) = 55
  /\ cpu.a = 0 /\ cpu.f = 224

(***************************************************************************)
(* The stack primitives (SpecProg).                                        *)
(***************************************************************************)
\* the word PUSH rr (0xC5, 0xD5, 0xE5, 0xF5) or RST n pushes
C27_Pushed(opcode) ==
  CASE opcode = 197 -> cpu.b * 256 + cpu.c
    [] opcode = 213 -> cpu.d * 256 + cpu.e
    [] opcode = 229 -> cpu.h * 256 + cpu.l
    [] opcode = 245 -> cpu.a * 256 + cpu.f
    [] OTHER -> (cpu.pc + 1) % 65536

\* the word at the top of the stack: low byte at SP, high byte at SP + 1
C27_Top == Read(mmu, (cpu.sp + 1) % 65536) * 256 + Read(mmu, cpu.sp)

\* the word POP rr (0xC1, 0xD1, 0xE1, 0xF1), RET or RETI has popped
C27_Popped(opcode) ==
  CASE opcode = 193 -> cpu'.b * 256 + cpu'.c
    [] opcode = 209 -> cpu'.d * 256 + cpu'.e
    [] opcode = 225 -> cpu'.h * 256 + cpu'.l
    [] opcode = 241 -> cpu'.a * 256 + cpu'.f
    [] OTHER -> cpu'.pc

\* C27: a push (PUSH rr, RST n) takes 2 from SP modulo 2^16 and writes the
\* high byte of the word at old SP - 1 first and the low byte at old SP - 2
\* second, so that in memory that stores the low byte is at the lower
\* address; a pop (POP rr, RET, RETI) returns the byte at SP + 1 as the high
\* and the byte at SP as the low byte and adds 2 to SP modulo 2^16.
C27_PushHighFirstPopLowFirst ==
  [][/\ (last'.op = "Step" /\ ~crashed'
          /\ last'.value \in C16_Push \cup {199 + 8 * n : n \in 0..7})
        => /\ cpu'.sp = (cpu.sp - 2) % 65536
           /\ mmu' = Write(Write(mmu, (cpu.sp - 1) % 65536,
                                 C27_Pushed(last'.value) \div 256),
                           (cpu.sp - 2) % 65536, C27_Pushed(last'.value) % 256)
           /\ C16_StackInMemory(mmu, cpu'.sp)
                => /\ Read(mmu', cpu'.sp) = C27_Pushed(last'.value) % 256
                   /\ Read(mmu', (cpu'.sp + 1) % 65536)
                        = C27_Pushed(last'.value) \div 256
     /\ (last'.op = "Step" /\ ~crashed'
          /\ last'.value \in {193, 209, 225, 241, 201, 217})
        => /\ cpu'.sp = (cpu.sp + 2) % 65536
           /\ C27_Popped(last'.value)
                = IF last'.value = 241 THEN C27_Top - (C27_Top % 16)
                  ELSE C27_Top]_vars

\* PUSH BC from SP = 0x0000 has left SP = 0xFFFE, the high byte 0x12 at
\* 0xFFFF and the low byte 0x0F at 0xFFFE
C27_PushedFromZero ==
  /\ last.op = "Step" /\ last.value = 197 /\ ~crashed
  /\ Read(mmu, last.address - 6) = 49 /\ Read(mmu, last.address - 5) = 0
  /\ Read(mmu, last.address - 4) = 0
  /\ cpu.b = 18 /\ cpu.c = 15 /\ cpu.sp = 65534
  /\ Read(mmu, 65535) = 18 /\ Read(mmu, 65534) = 15

\* PUSH BC with BC = 0x0A00 and SP = 0x0100 has written 0x0A and then 0x00
\* to the RAM-enable register: external RAM is disabled
C27_PushedIntoRamEnable ==
  /\ last.op = "Step" /\ last.value = 197 /\ ~crashed
  /\ cpu.b = 10 /\ cpu.c = 0 /\ cpu.sp = 254 /\ ~mmu.ram_enable

(***************************************************************************)
(* Flags and IME an instruction leaves alone (SpecAlu, Spec).              *)
(***************************************************************************)
\* INC r, INC (HL), DEC r, DEC (HL)
C28_IncDec8 == {4 + 8 * n : n \in 0..7} \cup {5 + 8 * n : n \in 0..7}

\* ADD HL,rr
C28_AddHl == {9, 25, 41, 57}

\* INC rr, DEC rr
C28_IncDec16 == {3 + 16 * n : n \in 0..3} \cup {11 + 16 * n : n \in 0..3}

\* the load / store instructions of the base page but LD HL,SP+r8: LD r,r'
\* and the (HL) forms, LD r,d8, LD rr,d16, A to and from (BC), (DE), (HL+),
\* (HL-), LD (a16),SP, LDH, LD (C),A, LD A,(C), LD (a16),A, LD A,(a16),
\* LD SP,HL
C28_LoadsNoFlags ==
  ((64..127) \ {118}) \cup {6 + 8 * n : n \in 0..7}
  \cup {1 + 16 * n : n \in 0..3} \cup {2 + 16 * n : n \in 0..3}
  \cup {10 + 16 * n : n \in 0..3} \cup {8, 224, 240, 226, 242, 234, 250, 249}

\* every load / store instruction: LD HL,SP+r8 (0xF8) with the others
C28_Loads == C28_LoadsNoFlags \cup {248}

\* PUSH rr, POP rr but POP AF, JP, JP HL, JP cc, JR, JR cc, CALL, CALL cc,
\* RST n, RET, RET cc, RETI
C28_StackAndControl ==
  {197, 213, 229, 245, 193, 209, 225}
  \cup {195, 233, 194, 202, 210, 218, 24, 32, 40, 48, 56}
  \cup {205, 196, 204, 212, 220} \cup {199 + 8 * n : n \in 0..7}
  \cup {201, 192, 200, 208, 216, 217}

\* the flags byte f with the bits of mask only
C28_Bits(f, mask) == {m \in mask : (f \div m) % 2 = 1}

\* the frame of the flags with the given set of loads
C28_FlagsFrame(loads) ==
     (last'.op = "Step" /\ ~crashed')
       => /\ last'.value \in C28_IncDec8
               => C28_Bits(cpu'.f, {16}) = C28_Bits(cpu.f, {16})
          /\ last'.value \in C28_AddHl
               => C28_Bits(cpu'.f, {128}) = C28_Bits(cpu.f, {128})
          /\ last'.value = 47
               => C28_Bits(cpu'.f, {128, 16}) = C28_Bits(cpu.f, {128, 16})
          /\ last'.value \in {55, 63}
               => C28_Bits(cpu'.f, {128}) = C28_Bits(cpu.f, {128})
          /\ last'.value \in C28_IncDec16 \cup loads \cup C28_StackAndControl
               => cpu'.f = cpu.f

\* C28 as stated: 8-bit INC and DEC never change C, ADD HL,rr never changes
\* Z, 16-bit INC and DEC change no flag, CPL leaves Z and C, SCF and CCF
\* leave Z, and every load, PUSH, POP but POP AF, jump, call and return
\* changes no flag.
C28_UndefinedFlagsUnchanged == [][C28_FlagsFrame(C28_Loads)]_vars

\* C28 (LD HL,SP+r8 excepted): the same, for every load but LD HL,SP+r8.
C28_UndefinedFlagsUnchangedButLdHlSp ==
  [][C28_FlagsFrame(C28_LoadsNoFlags)]_vars

\* INC A has run with A = 0xFF and C = 1: A = 0x00, Z = 1, H = 1, C still 1
C28_IncFFKeptCarry ==
  /\ last.op = "Step" /\ last.value = 60 /\ ~crashed
  /\ Read(mmu, last.address - 1) = 255 /\ Read(mmu, last.address - 2) = 62
  /\ Read(mmu, last.address - 3) = 55
  /\ cpu.a = 0 /\ cpu.f = 176

\* a load has run with all four flags set and has left them set
C28_LoadKeptAllFlags ==
  /\ last.op = "Step" /\ last.value = 120 /\ ~crashed
  /\ cpu.f = 240 /\ cpu.a = cpu.b

\* C29: IME is false after Reset; a step of DI leaves it false, a step of EI
\* leaves it true at once, a step of RETI leaves it true, a step of any
\* other opcode leaves it as it was, and no call but Step and Reset
\* changes it.
C29_ImeChangesOnlyByDiEiReti ==
  [][/\ last'.op = "CpuReset" => ~cpu'.ime
     /\ (last'.op = "Step" /\ ~crashed')
        => cpu'.ime = CASE last'.value = 243 -> FALSE
                        [] last'.value \in {251, 217} -> TRUE
                        [] OTHER -> cpu.ime
     /\ last'.op \notin {"Step", "CpuReset"} => cpu'.ime = cpu.ime]_vars

\* DI has run right after EI, which had set IME: IME is false
C29_DiAfterEi ==
  /\ last.op = "Step" /\ last.value = 243 /\ ~crashed
  /\ last.address = kEntry + 1 /\ Read(mmu, kEntry) = 251
  /\ ~cpu.ime /\ steps_left = MaxSteps - 2

\* the step of EI itself has ended with IME true
C29_EiStepSetIme ==
  last.op = "Step" /\ last.value = 251 /\ ~crashed /\ cpu.ime

\* RETI has set IME
C29_RetiSetIme ==
  last.op = "Step" /\ last.value = 217 /\ ~crashed /\ cpu.ime

(***************************************************************************)
(* External-RAM banking (SpecRam).                                         *)
(***************************************************************************)
\* the effective RAM bank: 0 in banking mode 0, high2 in banking mode 1
C30_Bank(u) == IF u.banking_mode = 0 THEN 0 ELSE u.rom_bank_high2 % 4

\* C30: while RAM is enabled and the effective RAM bank (0 in banking mode
\* 0, high2 in banking mode 1) is not 0, every read of external RAM returns
\* 0xFF and every write to it is dropped; no write to a mapper register
\* changes the stored bytes, and while RAM is enabled with bank 0 every
\* read returns the stored byte, so the bytes written under bank 0 are
\* returned again once the bank is back at 0.
C30_NonZeroBankReadsFFAndKeepsBankZero ==
  [][last'.op = "Write"
       => /\ ~crashed'
          /\ \A a \in C10_ExtRam :
               Read(mmu', a) =
                 IF mmu'.ram_enable /\ C30_Bank(mmu') = 0
                 THEN Get(mmu'.ext_ram, a - 40960) ELSE 255
          /\ mmu'.ext_ram =
               IF /\ last'.address \in 40960..49151
                  /\ mmu.ram_enable /\ C30_Bank(mmu) = 0
               THEN Put(mmu.ext_ram, last'.address - 40960, last'.value)
               ELSE mmu.ext_ram]_vars

\* RAM is enabled with RAM bank 1, the byte written to 0xA000 under bank 0
\* is retained and a read of 0xA000 returns 0xFF
C30_BankOneHidesBankZero ==
  /\ ~crashed /\ mmu.ram_enable /\ mmu.banking_mode = 1
  /\ mmu.rom_bank_high2 = 1
  /\ Get(mmu.ext_ram, 0) = 85 /\ Read(mmu, 40960) = 255

\* a write to 0xA000 has been dropped under RAM bank 3
C30_WriteDroppedUnderBankThree ==
  /\ ~crashed /\ mmu.ram_enable /\ mmu.banking_mode = 1
  /\ mmu.rom_bank_high2 = 3
  /\ last = Call("Write", 40960, 170) /\ Get(mmu.ext_ram, 0) = 85

\* no write brings the RAM bank from 1 back to 0 with the byte of bank 0
\* readable again (violated: such a write is reached)
C30_NeverBackAtBankZero ==
  [][~(/\ mmu.ram_enable /\ C30_Bank(mmu) = 1 /\ Read(mmu, 40960) = 255
       /\ C30_Bank(mmu') = 0 /\ Read(mmu', 40960) = 85)]_vars


====
